---- MODULE Spec2Model ----
(***************************************************************************)
(* Model of the standalone analysis pipeline of                           *)
(* src/services/standalone_analyzer.py (StandaloneAnalyzer.analyze and    *)
(* the helpers it calls) together with the /analyze handler of            *)
(* src/api/analyze.py that converts the AnalysisResult into a response.   *)
(*                                                                         *)
(* One behaviour is one /analyze request.  The request fields are chosen  *)
(* in Init; every answer of an external collaborator (GitHub client,      *)
(* local file system, rule engine, pydantic models) is chosen when the    *)
(* code asks for it.                                                       *)
(***************************************************************************)
EXTENDS Integers, Sequences, FiniteSets, TLC

(* ------------------------------ bounds -------------------------------- *)

\* Largest number of open PRs the PR list fetch returns.
MaxPRs == 2
\* Largest number of violations the evaluator reports for one PR.
MaxViol == 1
\* Largest number of entries under the rules key of a rule document.
MaxEntries == 1
\* Rule entries of a document when the parser is observed alone.
MaxParseEntries == 4
MaxBatch == 21
MaxFailures == 2

(* ------------------------- Python values ------------------------------ *)

\* Optional values: None is the empty set, a present value v is {v}.
None == {}
Some(v) == {v}
Val(o) == CHOOSE v \in o : TRUE

\* Python truthiness of an int | None and of a str | None.
TruthyInt(o) == o /= None /\ Val(o) /= 0
TruthyStr(o) == o /= None /\ Val(o) /= ""

RECURSIVE SeqsUpTo(_, _)
SeqsUpTo(S, n) ==
    IF n = 0 THEN {<<>>}
    ELSE LET shorter == SeqsUpTo(S, n - 1)
         IN  shorter \cup {Append(s, x) : s \in {t \in shorter : Len(t) = n - 1}, x \in S}

RECURSIVE SumSeq(_)
SumSeq(s) == IF s = <<>> THEN 0 ELSE Head(s) + SumSeq(Tail(s))

RECURSIVE Flatten(_)
Flatten(ss) == IF ss = <<>> THEN <<>> ELSE Head(ss) \o Flatten(Tail(ss))

Range(s) == {s[k] : k \in DOMAIN s}

(* --------------------------- rule documents --------------------------- *)

\* A rule entry of a document: a mapping that parses ("ok"), an entry that
\* is not a mapping ("nondict"), a mapping GitHubRuleLoader._parse_rule
\* rejects by raising ("raises").
EntryKinds == {"ok", "nondict", "raises"}

\* A YAML text.  shape "empty" is the empty string, "unparseable" makes
\* yaml.safe_load raise, "notmapping" loads to something that is no dict,
\* "norules" is a mapping without the rules key, "rules" a mapping whose
\* rules key holds the sequence entries.
Doc(shape, entries) == [shape |-> shape, entries |-> entries]
\* The texts of the requests and of the rule files: their entries are
\* well-formed or raise in _parse_rule; the entries that are no mapping,
\* dropped likewise, are taken up where the parser is observed alone.
RequestEntryKinds == {"ok", "raises"}
Docs ==
    {Doc(s, <<>>) : s \in {"empty", "unparseable", "notmapping", "norules"}}
    \cup {Doc("rules", es) : es \in SeqsUpTo(RequestEntryKinds, MaxEntries)}

\* The text is a non-empty Python string.
NonEmptyText(d) == d.shape /= "empty"

\* Truthiness of an optional YAML text (if rules_yaml:).
TruthyDoc(o) == o /= None /\ NonEmptyText(Val(o))

\* A parsed Rule, identified by the position of its entry in the document.
Rule(k) == [entry |-> k]

RECURSIVE ParseEntries(_, _)
ParseEntries(entries, k) ==
    IF k > Len(entries) THEN <<>>
    ELSE IF entries[k] = "ok"
         THEN <<Rule(k)>> \o ParseEntries(entries, k + 1)
         ELSE ParseEntries(entries, k + 1)

\* The parser without the try around _parse_rule: an entry that raises
\* reaches the outer handler and the whole document yields nothing.
ParseRulesFromYaml_EntryErrorIsFatal(d) ==
    IF d.shape = "rules" /\ \A k \in DOMAIN d.entries : d.entries[k] /= "raises"
    THEN ParseEntries(d.entries, 1)
    ELSE <<>>

\* StandaloneAnalyzer._parse_rules_from_yaml
ParseRulesFromYaml(d) ==
    IF d.shape = "rules" THEN ParseEntries(d.entries, 1) ELSE <<>>


\* What github_client.get_file_content answered for the repository rules
\* file: it raised, it returned None, or it returned the text doc.
FileAnswer(kind, d) == [kind |-> kind, doc |-> d]
RepoFileAnswers ==
    {FileAnswer("raise", Doc("empty", <<>>)), FileAnswer("none", Doc("empty", <<>>))}
    \cup {FileAnswer("content", d) : d \in Docs}

\* The local fallback file LOCAL_RULES_PATH: absent, or present with a text.
LocalFile(exists, d) == [exists |-> exists, doc |-> d]
LocalFiles ==
    {LocalFile(FALSE, Doc("empty", <<>>))} \cup {LocalFile(TRUE, d) : d \in Docs}

\* Mutant of LoadRules: a repository file that parses to zero rules does
\* not end the resolution, the local file is tried next.
LoadRules_FallsThroughOnEmptyParse(yaml, repoFile, localFile) ==
    IF TruthyDoc(yaml)
    THEN [rules  |-> ParseRulesFromYaml(Val(yaml)),
          source |-> "explicit",
          calls  |-> <<>>]
    ELSE IF repoFile.kind = "content" /\ ParseRulesFromYaml(repoFile.doc) /= <<>>
    THEN [rules  |-> ParseRulesFromYaml(repoFile.doc),
          source |-> "repository",
          calls  |-> <<"get_file_content:rules">>]
    ELSE IF localFile.exists
    THEN [rules  |-> ParseRulesFromYaml(localFile.doc),
          source |-> "local",
          calls  |-> <<"get_file_content:rules", "read_text:local_rules">>]
    ELSE [rules  |-> <<>>,
          source |-> "none",
          calls  |-> <<"get_file_content:rules">>]

\* A resolution that a raising fetch of the rules file ends: the local
\* file is not read.
LoadRules_FetchErrorEndsResolution(yaml, repoFile, localFile) ==
    IF TruthyDoc(yaml)
    THEN [rules  |-> ParseRulesFromYaml(Val(yaml)),
          source |-> "explicit",
          calls  |-> <<>>]
    ELSE IF repoFile.kind = "content" /\ NonEmptyText(repoFile.doc)
    THEN [rules  |-> ParseRulesFromYaml(repoFile.doc),
          source |-> "repository",
          calls  |-> <<"get_file_content:rules">>]
    ELSE IF localFile.exists /\ repoFile.kind /= "raise"
    THEN [rules  |-> ParseRulesFromYaml(localFile.doc),
          source |-> "local",
          calls  |-> <<"get_file_content:rules", "read_text:local_rules">>]
    ELSE [rules  |-> <<>>,
          source |-> "none",
          calls  |-> <<"get_file_content:rules">>]

\* StandaloneAnalyzer._load_rules: the rules returned, the source they
\* come from and the external reads issued on the way.
LoadRules(yaml, repoFile, localFile) ==
    IF TruthyDoc(yaml)
    THEN [rules  |-> ParseRulesFromYaml(Val(yaml)),
          source |-> "explicit",
          calls  |-> <<>>]
    ELSE IF repoFile.kind = "content" /\ NonEmptyText(repoFile.doc)
    THEN [rules  |-> ParseRulesFromYaml(repoFile.doc),
          source |-> "repository",
          calls  |-> <<"get_file_content:rules">>]
    ELSE IF localFile.exists
    THEN [rules  |-> ParseRulesFromYaml(localFile.doc),
          source |-> "local",
          calls  |-> <<"get_file_content:rules", "read_text:local_rules">>]
    ELSE [rules  |-> <<>>,
          source |-> "none",
          calls  |-> <<"get_file_content:rules">>]

(* ------------------------- pull request data -------------------------- *)

\* PR metadata as the GitHub API returns it.  The user field of a PR whose
\* author account was deleted is null; here that is every even-numbered PR.
UserOf(n) == IF n % 2 = 0 THEN "null" ELSE "object"
PR(n) == [number |-> n, title |-> <<"title", n>>, user |-> UserOf(n)]

\* s is strictly decreasing.
Descending(s) == \A a, b \in DOMAIN s : a < b => s[a] > s[b]

\* The sequences of open PRs a list fetch can return: the client asks for
\* state=open with GitHub's default order, newest first, so the PR numbers
\* decrease; at most MaxPRs of them.
PRLists ==
    {[k \in DOMAIN s |-> PR(s[k])] :
        s \in {t \in SeqsUpTo(1..MaxPRs, MaxPRs) : Descending(t)}}

\* Answers of the per-PR sub-fetches.  Reviews: the call failed (exception,
\* no headers, status other than 200) or returned a list.  Files: the same,
\* or a 200 answer whose JSON holds an entry that is not a mapping.
\* CODEOWNERS: what _fetch_codeowners returned.
ReviewAnswers == {"fail", "list"}
FileListAnswers == {"fail", "list", "malformed"}
CodeownersAnswers == {"none", "content"}

\* StandaloneAnalyzer._build_event_data: the context, or the exception it
\* lets escape (f.get on an entry that is not a mapping).
BuildEventData(pr, reviews, files, codeowners) ==
    IF pr.number /= 0 /\ files = "malformed"
    THEN [raised |-> TRUE, error |-> "AttributeError: object has no attribute get"]
    ELSE [raised |-> FALSE,
          pull_request_details |-> pr,
          reviews |-> IF pr.number /= 0 /\ reviews = "list" THEN <<"review">> ELSE <<>>,
          changed_files |-> IF pr.number /= 0 /\ files = "list" THEN <<"file">> ELSE <<>>,
          codeowners_content |->
              IF pr.number /= 0 /\ codeowners = "content" THEN Some("owners") ELSE None]

(* ----------------------------- evaluation ----------------------------- *)

\* A Violation object; pr_number is None until the analyzer stamps it.
Violation(tag, prnum) == [rule |-> tag, pr_number |-> prnum]
ViolationTags == 1..MaxViol

\* What engine_agent.execute did: it raised, it returned a result without
\* evaluation data, it returned violations Violation.model_validate
\* rejects, or it returned the violations viols (distinct, in its own
\* order, which is not the ascending one: highest tag first).
EvalAnswer(kind, viols) == [kind |-> kind, viols |-> viols]
EvalAnswers ==
    {EvalAnswer(k, <<>>) : k \in {"raise", "nodata", "invalid"}}
    \cup {EvalAnswer("ok", vs) : vs \in
            {s \in SeqsUpTo(ViolationTags, MaxViol) : Descending(s)}}

\* The evaluation without the loop of lines 539-541: the violations are
\* returned as the engine made them, with no PR number.
EvaluateRules_Unstamped(ruleset, event_data, answer) ==
    IF answer.kind = "ok"
    THEN [k \in DOMAIN answer.viols |-> Violation(answer.viols[k], None)]
    ELSE <<>>

\* StandaloneAnalyzer._evaluate_rules: every exception is caught inside
\* and turned into the empty list.
EvaluateRules(ruleset, event_data, answer) ==
    IF answer.kind = "ok"
    THEN [k \in DOMAIN answer.viols |->
            Violation(answer.viols[k], Some(event_data.pull_request_details.number))]
    ELSE <<>>

\* Whether engine_agent.execute raised or returned.
EngineOutcome(answer) == IF answer.kind = "raise" THEN "raised" ELSE "returned"

\* Violation.model_dump: the dict of one violation.
ModelDump(v) == <<"dict", v.rule, v.pr_number>>
DumpAll(vs) == [k \in DOMAIN vs |-> ModelDump(vs[k])]

(* ------------------------------ results ------------------------------- *)

\* An error string of a result: the message, the PR number it names (0
\* when it names none) and whether the rate-limit note is appended.
Err(msg, prnum, hint) == [msg |-> msg, pr |-> prnum, hint |-> hint]

\* AnalysisResult.__init__ (processing_time_ms and repo_info, which every
\* path sets the same way, are left out).
AnalysisResult(success, violations, loaded, error, pr_data, analyzed) ==
    [success      |-> success,
     violations   |-> violations,
     rules_loaded |-> loaded,
     error        |-> error,
     pr_data      |-> pr_data,
     prs_analyzed |-> analyzed]

\* The lookup failure with the rate-limit note appended unconditionally.
RepoNotFoundResult_AlwaysHints(token) ==
    AnalysisResult(FALSE, <<>>, 0,
        Some(Err("Repository not found or access denied", 0, TRUE)), None, <<>>)

\* analyze, lines 129-142: the repository lookup returned nothing.
RepoNotFoundResult(token) ==
    AnalysisResult(FALSE, <<>>, 0,
        Some(Err("Repository not found or access denied", 0, ~TruthyStr(token))),
        None, <<>>)

\* The empty rule set taken as nothing to check.
NoRulesResult_AsEmptySuccess ==
    AnalysisResult(TRUE, <<>>, 0, None, None, <<>>)

\* analyze, lines 147-155: the resolved rule set is empty.
NoRulesResult ==
    AnalysisResult(FALSE, <<>>, 0, Some(Err("No rules found", 0, FALSE)), None, <<>>)

\* analyze, lines 166-175: the handler of every escaped exception.
ExceptionResult(message) ==
    AnalysisResult(FALSE, <<>>, 0, Some(Err(message, 0, FALSE)), None, <<>>)

\* The failure reported like the earlier ones, with no rule count.
PRNotFoundResult_NoRuleCount(loaded, target) ==
    AnalysisResult(FALSE, <<>>, 0,
        Some(Err("PR not found or access denied", target, FALSE)), None, <<>>)

\* _analyze_single_pr, lines 188-196: the target PR could not be fetched.
PRNotFoundResult(loaded, target) ==
    AnalysisResult(FALSE, <<>>, loaded,
        Some(Err("PR not found or access denied", target, FALSE)), None, <<>>)

\* The single summary counting the rules instead of the violations.
SinglePRResult_CountsRules(loaded, pr, violations) ==
    AnalysisResult(TRUE, violations, loaded, None, Some(pr),
        <<[number |-> pr.number, title |-> pr.title,
           violations_count |-> loaded]>>)

\* _analyze_single_pr, lines 201-213.
SinglePRResult(loaded, pr, violations) ==
    AnalysisResult(TRUE, violations, loaded, None, Some(pr),
        <<[number |-> pr.number, title |-> pr.title,
           violations_count |-> Len(violations)]>>)

\* The empty list reported with no rule count.
NoOpenPRsResult_NoRuleCount(loaded) ==
    AnalysisResult(FALSE, <<>>, 0,
        Some(Err("No open pull requests found in this repository.", 0, FALSE)),
        None, <<>>)

\* Mutant of NoOpenPRsResult: the empty batch is reported as a success
\* that carries the message.
NoOpenPRsResult_AsSuccess(loaded) ==
    AnalysisResult(TRUE, <<>>, loaded,
        Some(Err("No open pull requests found in this repository.", 0, FALSE)),
        None, <<>>)

\* _analyze_latest_prs, lines 232-240: the list fetch returned no PR.
NoOpenPRsResult(loaded) ==
    AnalysisResult(FALSE, <<>>, loaded,
        Some(Err("No open pull requests found in this repository.", 0, FALSE)),
        None, <<>>)

\* The batch represented by the first PR whose evaluation succeeded.
BatchResult_FirstEvaluatedPR(loaded, fetched, violations, analyzed) ==
    LET evaluated == {k \in DOMAIN analyzed : ~("error" \in DOMAIN analyzed[k])}
    IN  AnalysisResult(TRUE, violations, loaded, None,
            IF evaluated /= {}
            THEN Some(fetched[CHOOSE k \in evaluated : \A m \in evaluated : k <= m])
            ELSE None,
            analyzed)

\* _analyze_latest_prs, lines 285-293.
BatchResult(loaded, fetched, violations, analyzed) ==
    AnalysisResult(TRUE, violations, loaded, None,
        IF fetched /= <<>> THEN Some(fetched[1]) ELSE None, analyzed)

\* _analyze_latest_prs, lines 261-266: the summary of an evaluated PR.
SuccessSummary(pr, violations) ==
    [number |-> pr.number, title |-> pr.title,
     violations_count |-> Len(violations),
     violations |-> DumpAll(violations)]

\* _analyze_latest_prs, lines 277-283: the summary of a PR whose
\* processing raised.
ErrorSummary(pr, message) ==
    [number |-> pr.number, title |-> pr.title,
     violations_count |-> 0, violations |-> <<>>, error |-> message]

\* AnalysisResult.to_dict followed by AnalyzeResponse(**...): the response,
\* or the exception raised by self.pr_data.get("user", {}).get("login")
\* when the user key is present and null.
ToDict(r) ==
    IF r.pr_data /= None /\ Val(r.pr_data).user = "null"
    THEN [raised |-> TRUE]
    ELSE [raised           |-> FALSE,
          success          |-> r.success,
          violations       |-> DumpAll(r.violations),
          violations_count |-> Len(r.violations),
          rules_loaded     |-> r.rules_loaded,
          error            |-> r.error,
          pr_data          |-> IF r.pr_data /= None
                               THEN Some([number |-> Val(r.pr_data).number,
                                          title  |-> Val(r.pr_data).title,
                                          user   |-> "login"])
                               ELSE None,
          prs_analyzed     |-> r.prs_analyzed]

\* _analyze_single_pr, lines 198-213, after the PR metadata was fetched:
\* the result, where an exception escaping _build_event_data reaches the
\* handler of analyze.
SinglePRAfterFetch(ruleset, pr_data, reviews, files, codeowners, answer) ==
    LET event_data == BuildEventData(pr_data, reviews, files, codeowners)
    IN  IF event_data.raised
        THEN ExceptionResult(event_data.error)
        ELSE SinglePRResult(Len(ruleset), pr_data,
                            EvaluateRules(ruleset, event_data, answer))

\* What the request for the metadata of PR target met: no headers could
\* be made, the status was not 200, the request raised, or the PR came
\* back; GitHub has no PR numbered below 1.
PRAnswers(target) ==
    {"no headers", "not 200", "raise"} \cup (IF target >= 1 THEN {"data"} ELSE {})

\* _fetch_pr_data, lines 334-354: the PR dict, or None.
FetchPRData(target, fetched) == IF fetched = "data" THEN Some(PR(target)) ELSE None

\* The calls _build_event_data and _evaluate_rules make for a PR with a
\* number: reviews and files, then, unless the file list made the context
\* raise, CODEOWNERS and the rule engine.
ContextCalls(files) ==
    <<"_fetch_pr_reviews", "_fetch_pr_files">>
    \o (IF files = "malformed" THEN <<>>
        ELSE <<"_fetch_codeowners", "engine_agent.execute">>)

\* _analyze_single_pr, lines 187-213: what the fetch met, the calls made
\* and the result.
AnalyzeSinglePRDone(ruleset, target, fetched, reviews, files, codeowners, answer) ==
    LET pr_data == FetchPRData(target, fetched)
    IN  IF pr_data = None
        THEN [fetched |-> fetched,
              calls   |-> <<"get_pull_request">>,
              result  |-> PRNotFoundResult(Len(ruleset), target)]
        ELSE [fetched |-> fetched,
              calls   |-> <<"get_pull_request">> \o ContextCalls(files),
              result  |-> SinglePRAfterFetch(ruleset, Val(pr_data), reviews, files,
                                             codeowners, answer)]

\* _analyze_latest_prs, lines 256-283: the body of one loop iteration for
\* pr: what it appends to all_violations and the summary it appends to
\* prs_analyzed.  dumpRaises: v.model_dump() raises while the summary
\* dict is built, after all_violations.extend(violations).  evaluator
\* tells what became of the call of the rule engine.
Iteration(ruleset, pr, reviews, files, codeowners, answer, dumpRaises) ==
    LET event_data == BuildEventData(pr, reviews, files, codeowners)
        violations == EvaluateRules(ruleset, event_data, answer)
    IN  IF event_data.raised
        THEN [extend |-> <<>>, summary |-> ErrorSummary(pr, event_data.error),
              evaluator |-> "not called"]
        ELSE IF dumpRaises /\ violations /= <<>>
        THEN [extend |-> violations,
              summary |-> ErrorSummary(pr, "model_dump failed"),
              evaluator |-> EngineOutcome(answer)]
        ELSE [extend |-> violations, summary |-> SuccessSummary(pr, violations),
              evaluator |-> EngineOutcome(answer)]

\* Mutant of RecordIteration: a failed PR leaves no summary.
RecordIteration_SkipsFailed(analyzed, done) ==
    IF "error" \in DOMAIN done.summary THEN analyzed ELSE Append(analyzed, done.summary)

\* _analyze_latest_prs, lines 261 and 277: the summary of the iteration is
\* appended, whether the iteration succeeded or failed.
RecordIteration(analyzed, done) == Append(analyzed, done.summary)

\* The iteration ended in the handler of the loop (lines 275-283).
Failed(done) == "error" \in DOMAIN done.summary

\* _analyze_latest_prs, line 268: the period of the progress signal.
ProgressEvery == 10

\* _analyze_latest_prs, lines 268-274: the signal follows the append of the
\* summary inside the try block, so an iteration that ended in the
\* handler emits none.  processed is the position of the PR, from 1.
EmitProgress(signals, processed, total, failed) ==
    IF ~failed /\ processed % ProgressEvery = 0
    THEN Append(signals, [processed |-> processed, total |-> total])
    ELSE signals

\* analyze, lines 120-121: the explicit PR number, else the one embedded
\* in the repository reference.
TargetPR(arg, embedded) == IF arg = None THEN embedded ELSE arg

\* analyze, line 157: if pr_number.
TakesSinglePath(target) == TruthyInt(target)

\* The strategy choice with the boundary moved onto 20.
FetchStrategy_PaginatesAtTwenty(limit) ==
    IF limit >= 20 THEN "fetch_all_pull_requests" ELSE "list_pull_requests"

\* _analyze_latest_prs, lines 227-230: the fetch strategy.
FetchStrategy(limit) ==
    IF limit > 20 THEN "fetch_all_pull_requests" ELSE "list_pull_requests"

\* What the PR list call of the client did: it raised, or it returned the
\* open PRs prs, never more than the limit it was handed.
ListAnswer(kind, fetched) == [kind |-> kind, prs |-> fetched]
ListAnswers(limit) ==
    {ListAnswer("raise", <<>>)}
    \cup {ListAnswer("list", s) : s \in {t \in PRLists : Len(t) <= limit}}

\* _fetch_open_prs, lines 299-313, and _fetch_all_prs_paginated, lines
\* 319-328: the list of the client, or the empty list when the call raised.
FetchedPRs(answer) == IF answer.kind = "raise" THEN <<>> ELSE answer.prs

(* -------------------------- reference parsing ------------------------- *)

\* A reference is a sequence of tokens.  The hosts are one token each; the
\* words the patterns name (tree, blob, pull, .git) are one token each;
\* "a", "s" and "-" are characters of names, "0" and "7" digits, " " a
\* blank.
WebHosts == {"https://github.com/", "http://github.com/"}
BareHost == "github.com/"
SshHost == "git@github.com:"
Digits == {"0", "7"}

\* [^/]: the token holds no slash.
NotSlash(t) == t \notin ({"/", BareHost} \cup WebHosts)
\* [a-zA-Z0-9_-] and [a-zA-Z0-9_.-] of SHORT_PATTERN.
ShortOwnerChar(t) == t \in {"a", "s", "-", "tree", "blob", "pull"} \cup Digits
ShortRepoChar(t) == ShortOwnerChar(t) \/ t = ".git"

Drop(s, n) == SubSeq(s, n + 1, Len(s))
Take(s, n) == SubSeq(s, 1, n)
AllNotSlash(s) == \A k \in DOMAIN s : NotSlash(s[k])

\* url.strip()
RECURSIVE Strip(_)
Strip(s) ==
    IF s = <<>> THEN s
    ELSE IF s[1] = " " THEN Strip(Tail(s))
    ELSE IF s[Len(s)] = " " THEN Strip(Take(s, Len(s) - 1))
    ELSE s

\* int(match.group("pr"))
RECURSIVE IntOf(_)
IntOf(ds) ==
    IF ds = <<>> THEN 0
    ELSE IntOf(Take(ds, Len(ds) - 1)) * 10 + (IF ds[Len(ds)] = "7" THEN 7 ELSE 0)

\* The part of HTTPS_PATTERN and BARE_PATTERN after the repo group:
\* (?:/)? (?:(?:tree|blob)/(?P<branch>[^/]+))? (?:pull/(?P<pr>\d+))?
\* (?:\.git)? (?:/)? $.  A way of matching t says which optional parts
\* are taken and how long the branch (bl) and the digits (pl) are, 0 for
\* a group that is not taken.
TailWays(t) ==
    {w \in [sl1 : BOOLEAN, bl : 0..Len(t), pl : 0..Len(t), git : BOOLEAN, sl2 : BOOLEAN] :
        LET p1 == IF w.sl1 THEN 2 ELSE 1
            p2 == IF w.bl > 0 THEN p1 + 2 + w.bl ELSE p1
            p3 == IF w.pl > 0 THEN p2 + 2 + w.pl ELSE p2
            p4 == IF w.git THEN p3 + 1 ELSE p3
            p5 == IF w.sl2 THEN p4 + 1 ELSE p4
        IN  /\ p5 = Len(t) + 1
            /\ w.sl1 => t[1] = "/"
            /\ w.bl > 0 => /\ t[p1] \in {"tree", "blob"}
                           /\ t[p1 + 1] = "/"
                           /\ AllNotSlash(SubSeq(t, p1 + 2, p2 - 1))
            /\ w.pl > 0 => /\ t[p2] = "pull"
                           /\ t[p2 + 1] = "/"
                           /\ \A k \in (p2 + 2)..(p3 - 1) : t[k] \in Digits
            /\ w.git => t[p3] = ".git"
            /\ w.sl2 => t[p4] = "/"}

\* The order in which the regex engine tries the ways: every optional part
\* and every repetition is greedy, the earlier part deciding first.
WayRank(w, t) ==
    LET m == Len(t) + 1
        b(x) == IF x THEN 1 ELSE 0
    IN  (((((b(w.sl1) * 2 + b(w.bl > 0)) * m + w.bl) * 2 + b(w.pl > 0)) * m + w.pl)
            * 2 + b(w.git)) * 2 + b(w.sl2)

FirstWay(t) ==
    CHOOSE w \in TailWays(t) : \A v \in TailWays(t) : WayRank(v, t) <= WayRank(w, t)

\* GitHubRepoInfo
GitHubRepoInfo(owner, repo, prnum, branch) ==
    [owner |-> owner, repo |-> repo, pr_number |-> prnum, branch |-> branch]

\* The match of HTTPS_PATTERN or BARE_PATTERN on what follows the host:
\* owner up to the first slash, then the shortest repo (the group is lazy)
\* after which the rest can be matched.  None when there is no match.
MatchPath(path) ==
    LET slashes == {k \in DOMAIN path : path[k] = "/"}
    IN  IF slashes = {} THEN None
        ELSE LET k == CHOOSE x \in slashes : \A y \in slashes : x <= y
                 owner == Take(path, k - 1)
                 rest == Drop(path, k)
                 lens == {n \in 1..Len(rest) :
                             AllNotSlash(Take(rest, n)) /\ TailWays(Drop(rest, n)) /= {}}
             IN  IF owner = <<>> \/ ~AllNotSlash(owner) \/ lens = {} THEN None
                 ELSE LET n == CHOOSE x \in lens : \A y \in lens : x <= y
                          t == Drop(rest, n)
                          w == FirstWay(t)
                          p1 == IF w.sl1 THEN 2 ELSE 1
                          p2 == IF w.bl > 0 THEN p1 + 2 + w.bl ELSE p1
                      IN  Some(GitHubRepoInfo(owner, Take(rest, n),
                                  IF w.pl > 0
                                  THEN Some(IntOf(SubSeq(t, p2 + 2, p2 + 1 + w.pl)))
                                  ELSE None,
                                  IF w.bl > 0
                                  THEN Some(SubSeq(t, p1 + 2, p2 - 1))
                                  ELSE None))

\* The match of SSH_PATTERN on what follows git@github.com: owner up to
\* the first slash, the shortest repo before (?:\.git)?/?$.
MatchSshPath(path) ==
    LET slashes == {k \in DOMAIN path : path[k] = "/"}
    IN  IF slashes = {} THEN None
        ELSE LET k == CHOOSE x \in slashes : \A y \in slashes : x <= y
                 owner == Take(path, k - 1)
                 rest == Drop(path, k)
                 Ends(t) == t \in {<<>>, <<".git">>, <<"/">>, <<".git", "/">>}
                 lens == {n \in 1..Len(rest) :
                             AllNotSlash(Take(rest, n)) /\ Ends(Drop(rest, n))}
             IN  IF owner = <<>> \/ ~AllNotSlash(owner) \/ lens = {} THEN None
                 ELSE LET n == CHOOSE x \in lens : \A y \in lens : x <= y
                      IN  Some(GitHubRepoInfo(owner, Take(rest, n), None, None))

\* The match of SHORT_PATTERN on the whole text.
MatchShort(text) ==
    LET slashes == {k \in DOMAIN text : text[k] = "/"}
    IN  IF Cardinality(slashes) /= 1 THEN None
        ELSE LET k == CHOOSE x \in slashes : TRUE
                 owner == Take(text, k - 1)
                 repo == Drop(text, k)
             IN  IF /\ owner /= <<>> /\ repo /= <<>>
                    /\ \A j \in DOMAIN owner : ShortOwnerChar(owner[j])
                    /\ \A j \in DOMAIN repo : ShortRepoChar(repo[j])
                 THEN Some(GitHubRepoInfo(owner, repo, None, None))
                 ELSE None

\* GitHubURLParser.parse: the patterns are tried in the order HTTPS, BARE,
\* SSH, SHORT, each from the start of the stripped text.
Parse(url) ==
    LET text == Strip(url)
        https == IF text /= <<>> /\ text[1] \in WebHosts
                 THEN MatchPath(Tail(text)) ELSE None
        bare == IF text /= <<>> /\ text[1] = BareHost
                THEN MatchPath(Tail(text)) ELSE None
        ssh == IF text /= <<>> /\ text[1] = SshHost
               THEN MatchSshPath(Tail(text)) ELSE None
    IN  IF https /= None THEN https
        ELSE IF bare /= None THEN bare
        ELSE IF ssh /= None THEN ssh
        ELSE MatchShort(text)

(* ----------------------------- HTTP layer ----------------------------- *)

\* The range check with both ends excluded.
MaxPrsAccepted_Exclusive(limit) == 1 < limit /\ limit < 200

\* AnalyzeRequest.max_prs, Field(ge=1, le=200): the body is accepted.
MaxPrsAccepted(limit) == 1 <= limit /\ limit <= 200

\* A response that is no analysis result: FastAPI's validation error
\* (422), the HTTPException of analyze_repository (400).
ClientError(status) == [raised |-> FALSE, status |-> status]

\* The response built without the check of line 161: the fields of a
\* missing GitHubRepoInfo are read and the handler raises.
ParseURLResponse_Unchecked(valid, embedded) ==
    [raised |-> ~valid, valid |-> valid, owner |-> Some("owner"),
     repo |-> Some("repo"), full_name |-> Some("owner/repo"),
     pr_number |-> embedded, branch |-> None]

\* parse_github_url, lines 161-178: the ParseURLResponse.
ParseURLResponse(valid, embedded) ==
    IF ~valid
    THEN [raised |-> FALSE, valid |-> FALSE, owner |-> None, repo |-> None,
          full_name |-> None, pr_number |-> None, branch |-> None]
    ELSE [raised |-> FALSE, valid |-> TRUE, owner |-> Some("owner"),
          repo |-> Some("repo"), full_name |-> Some("owner/repo"),
          pr_number |-> embedded, branch |-> None]

(* ------------------------------- state -------------------------------- *)

VARIABLES
    endpoint,       \* request: the route, /analyze or /parse-url
    repo_valid,     \* request: GitHubURLParser.parse accepts repository_url
    pr_number,      \* request: the explicit PR number (int | None)
    repo_pr,        \* request: repo_info.pr_number, parsed from the reference
    rules_yaml,     \* request: the explicit rule text (str | None)
    github_token,   \* request: the credential (str | None)
    max_prs,        \* request: the PR limit
    pc,             \* where the request is
    log,            \* the top-level external calls issued so far, in order
    rules,          \* analyze: the resolved rule set
    prs,            \* _analyze_latest_prs: the fetched PR list
    i,              \* _analyze_latest_prs: position of the next PR (from 1)
    all_violations, \* _analyze_latest_prs: the flattened violations
    prs_analyzed,   \* _analyze_latest_prs: the per-PR summaries
    result,         \* the AnalysisResult analyze returned (None before)
    response,       \* what the /analyze handler made of it (None before)
    last_eval,      \* history: the rule engine call of the last iteration
    repo_answer,    \* history: what the repository lookup answered
    pr_answer,      \* history: what the fetch of the target PR met
    fetch_limit,    \* history: the limit handed to the PR list fetch
    fetch_failed,   \* history: the PR list fetch raised
    repo_file,      \* rule resolution observed alone: the repository answer
    local_file,     \* rule resolution observed alone: the local file
    reference,      \* the parser observed alone: the repository string
    repo_info,      \* the parser observed alone: what parse returned
    calls,          \* call by call: the external calls issued so far
    outstanding,    \* call by call: the calls awaiting their answer
    event_data,     \* call by call: the context of the PR in progress
    probe,          \* call by call: the CODEOWNERS candidate in turn
    answers,        \* call by call: what the calls for this PR answered
    cancelled,      \* call by call: the task was cancelled
    orchestrator,   \* two analyses: the attributes of the shared instance
    tasks,          \* two analyses: the locals of each analysis
    alone,          \* two analyses: the locals of each, had it run alone
    progress        \* _analyze_latest_prs: the progress signals emitted

vars == <<endpoint, repo_valid, pr_number, repo_pr, rules_yaml, github_token,
          max_prs, pc, log, rules, prs, i, all_violations, prs_analyzed, result,
          response, last_eval, repo_answer, pr_answer, fetch_limit,
          fetch_failed, repo_file, local_file, reference, repo_info, calls,
          outstanding, event_data, probe, answers, cancelled, orchestrator,
          tasks, alone, progress>>

request == <<endpoint, repo_valid, pr_number, repo_pr, rules_yaml, github_token,
             max_prs>>
batch == <<prs, i, all_violations, prs_analyzed, last_eval, fetch_limit,
           fetch_failed>>
stepwise == <<calls, outstanding, event_data, probe, answers, cancelled>>
concurrent == <<orchestrator, tasks, alone>>
watched == <<repo_file, local_file, reference, repo_info, stepwise, concurrent>>
observed == <<watched, progress>>

\* No analysis is being followed call by call.
NotStepwise ==
    /\ calls = <<>>
    /\ outstanding = {}
    /\ event_data = None
    /\ probe = 1
    /\ answers = <<>>
    /\ cancelled = FALSE

\* StandaloneAnalyzer.__init__, lines 91-93: the attributes of the instance
\* every request shares (line 549), as pairs of a name and a value.
NewOrchestrator ==
    {<<"github_client", "github_client">>, <<"engine_agent", "RuleEngineAgent">>}

\* No two analyses are being followed.
NotConcurrent ==
    /\ orchestrator = NewOrchestrator
    /\ tasks = <<>>
    /\ alone = <<>>

\* The values a request can carry.  pr_number has no lower bound in
\* AnalyzeRequest, and the reference pattern pull/(\d+) accepts pull/0.
PRNumberArgs == {None, Some(0), Some(2)}
EmbeddedPRNumbers == {None, Some(0), Some(1)}
RuleTexts == {None} \cup {Some(d) : d \in Docs}
Tokens == {None, Some(""), Some("ghp_token")}
MaxPrsValues == {0, 1, 20, 200, 201}
Endpoints == {"/analyze", "/parse-url"}

\* What GitHubURLParser.parse made of repository_url: None when the string
\* matches no pattern, else a GitHubRepoInfo with its pr_number.
ParsedReferences ==
    {[valid |-> FALSE, pr |-> None]}
    \cup {[valid |-> TRUE, pr |-> p] : p \in EmbeddedPRNumbers}

Init ==
    /\ endpoint \in Endpoints
    /\ \E ref \in ParsedReferences : repo_valid = ref.valid /\ repo_pr = ref.pr
    /\ pr_number \in PRNumberArgs
    /\ rules_yaml \in RuleTexts
    /\ github_token \in Tokens
    /\ max_prs \in MaxPrsValues
    /\ pc = "received"
    /\ log = <<>>
    /\ rules = <<>>
    /\ prs = <<>>
    /\ i = 1
    /\ all_violations = <<>>
    /\ prs_analyzed = <<>>
    /\ result = None
    /\ response = None
    /\ last_eval = "not called"
    /\ repo_answer = "not asked"
    /\ pr_answer = "not asked"
    /\ fetch_limit = None
    /\ fetch_failed = FALSE
    /\ repo_file = None
    /\ local_file = None
    /\ reference = None
    /\ repo_info = None
    /\ NotStepwise
    /\ progress = <<>>
    /\ NotConcurrent

\* analyze returns r.
Return(r) ==
    /\ result' = Some(r)
    /\ pc' = "returned"

(* ------------------------------ actions ------------------------------- *)

\* Both routes take an AnalyzeRequest: FastAPI validates the body before
\* the handler runs and answers 422 when max_prs is out of range.
ValidateRequest ==
    /\ pc = "received"
    /\ IF MaxPrsAccepted(max_prs)
       THEN pc' = "handler" /\ UNCHANGED response
       ELSE pc' = "rejected" /\ response' = Some(ClientError(422))
    /\ UNCHANGED <<request, log, rules, batch, result, repo_answer, pr_answer, observed>>

\* analyze_repository, lines 114-129: the reference is parsed; a string
\* that matches no pattern is answered with 400.
ParseReference ==
    /\ pc = "handler"
    /\ endpoint = "/analyze"
    /\ IF repo_valid
       THEN pc' = "get_repository" /\ UNCHANGED response
       ELSE pc' = "rejected" /\ response' = Some(ClientError(400))
    /\ UNCHANGED <<request, log, rules, batch, result, repo_answer, pr_answer, observed>>

\* parse_github_url, lines 151-178.
ParseUrl ==
    /\ pc = "handler"
    /\ endpoint = "/parse-url"
    /\ response' = Some(ParseURLResponse(repo_valid, repo_pr))
    /\ pc' = "responded"
    /\ UNCHANGED <<request, log, rules, batch, result, repo_answer, pr_answer, observed>>

\* analyze, lines 123-142: the repository lookup.
GetRepository ==
    /\ pc = "get_repository"
    /\ log' = Append(log, "get_repository")
    /\ \E answer \in {"raise", "none", "data"} :
          /\ repo_answer' = answer
          /\ CASE answer = "raise" -> Return(ExceptionResult("repository lookup failed"))
               [] answer = "none"  -> Return(RepoNotFoundResult(github_token))
               [] answer = "data"  -> pc' = "load_rules" /\ UNCHANGED result
    /\ UNCHANGED <<request, rules, batch, response, pr_answer, observed>>

\* analyze, lines 144-164, once _load_rules has returned loaded.
ResolveRules(loaded) ==
    /\ rules' = loaded.rules
    /\ log' = log \o loaded.calls
    /\ IF loaded.rules = <<>>
       THEN Return(NoRulesResult)
       ELSE /\ pc' = IF TakesSinglePath(TargetPR(pr_number, repo_pr))
                     THEN "single_pr" ELSE "latest_prs"
            /\ UNCHANGED result

\* analyze, lines 144-164: rule resolution, the empty-set check and the
\* choice of the path.
LoadRulesStep ==
    /\ pc = "load_rules"
    /\ repo_file = None
    /\ \E loaded \in {LoadRules(rules_yaml, repoFile, localFile) :
                        repoFile \in RepoFileAnswers, localFile \in LocalFiles} :
          ResolveRules(loaded)
    /\ UNCHANGED <<request, batch, response, repo_answer, pr_answer, observed>>

\* _analyze_single_pr, lines 187-213, and the exception handler of analyze
\* for what escapes it.
AnalyzeSinglePR ==
    /\ pc = "single_pr"
    /\ LET target == Val(TargetPR(pr_number, repo_pr))
       IN  \E done \in {AnalyzeSinglePRDone(rules, target, fetched, reviews, files,
                                              codeowners, answer) :
                            fetched \in PRAnswers(target),
                            reviews \in ReviewAnswers, files \in FileListAnswers,
                            codeowners \in CodeownersAnswers,
                            answer \in EvalAnswers} :
              /\ pr_answer' = done.fetched
              /\ log' = log \o done.calls
              /\ Return(done.result)
    /\ UNCHANGED <<request, rules, batch, response, repo_answer, observed>>

\* _analyze_latest_prs, lines 226-250: the list fetch (a failed fetch is
\* the empty list) and the empty-list check.
FetchPRs ==
    /\ pc = "latest_prs"
    /\ log' = Append(log, FetchStrategy(max_prs))
    /\ fetch_limit' = Some(max_prs)
    /\ \E answer \in ListAnswers(max_prs) :
          /\ fetch_failed' = (answer.kind = "raise")
          /\ prs' = FetchedPRs(answer)
          /\ IF FetchedPRs(answer) = <<>>
             THEN Return(NoOpenPRsResult(Len(rules)))
             ELSE pc' = "loop" /\ UNCHANGED result
    /\ i' = 1
    /\ all_violations' = <<>>
    /\ prs_analyzed' = <<>>
    /\ UNCHANGED <<request, rules, response, last_eval, repo_answer, pr_answer, observed>>

\* _analyze_latest_prs, lines 252-283: one iteration of the loop.
ProcessPR ==
    /\ pc = "loop"
    /\ i <= Len(prs)
    /\ \E done \in {Iteration(rules, prs[i], reviews, files, codeowners,
                                answer, dumpRaises) :
                        reviews \in ReviewAnswers, files \in FileListAnswers,
                        codeowners \in CodeownersAnswers, answer \in EvalAnswers,
                        dumpRaises \in BOOLEAN} :
          /\ all_violations' = all_violations \o done.extend
          /\ prs_analyzed' = RecordIteration(prs_analyzed, done)
          /\ last_eval' = done.evaluator
          /\ progress' = EmitProgress(progress, i, Len(prs), Failed(done))
    /\ i' = i + 1
    /\ UNCHANGED <<request, pc, log, rules, prs, result, response, repo_answer,
                   pr_answer, fetch_limit, fetch_failed, watched>>

\* _analyze_latest_prs, lines 285-293: the loop is over.
ReturnBatch ==
    /\ pc = "loop"
    /\ i > Len(prs)
    /\ Return(BatchResult(Len(rules), prs, all_violations, prs_analyzed))
    /\ UNCHANGED <<request, log, rules, batch, response, repo_answer, pr_answer, observed>>

\* analyze_repository, line 148: the result becomes the response.
Respond ==
    /\ pc = "returned"
    /\ response' = Some(ToDict(Val(result)))
    /\ pc' = "responded"
    /\ UNCHANGED <<request, log, rules, batch, result, repo_answer, pr_answer, observed>>

Next ==
    \/ ValidateRequest
    \/ ParseReference
    \/ ParseUrl
    \/ GetRepository
    \/ LoadRulesStep
    \/ AnalyzeSinglePR
    \/ FetchPRs
    \/ ProcessPR
    \/ ReturnBatch
    \/ Respond

Spec == Init /\ [][Next]_vars

(* ------------------- rule resolution observed alone ------------------- *)

\* The same resolution step, started after a successful repository lookup
\* with the answers of the repository and of the local file system fixed
\* beforehand, so that the outcome can be compared with them.
InitRules ==
    /\ endpoint = "/analyze"
    /\ repo_valid = TRUE
    /\ pr_number \in PRNumberArgs
    /\ repo_pr \in EmbeddedPRNumbers
    /\ rules_yaml \in RuleTexts
    /\ github_token = None
    /\ max_prs = 20
    /\ pc = "load_rules"
    /\ log = <<"get_repository">>
    /\ rules = <<>>
    /\ prs = <<>>
    /\ i = 1
    /\ all_violations = <<>>
    /\ prs_analyzed = <<>>
    /\ result = None
    /\ response = None
    /\ last_eval = "not called"
    /\ repo_answer = "data"
    /\ pr_answer = "not asked"
    /\ fetch_limit = None
    /\ fetch_failed = FALSE
    /\ repo_file \in {Some(a) : a \in RepoFileAnswers}
    /\ local_file \in {Some(f) : f \in LocalFiles}
    /\ reference = None
    /\ repo_info = None
    /\ NotStepwise
    /\ progress = <<>>
    /\ NotConcurrent

LoadRulesObserved ==
    /\ pc = "load_rules"
    /\ repo_file /= None
    /\ ResolveRules(LoadRules(rules_yaml, Val(repo_file), Val(local_file)))
    /\ UNCHANGED <<request, batch, response, repo_answer, pr_answer, observed>>

NextRules == LoadRulesObserved

SpecRules == InitRules /\ [][NextRules]_vars

(* ----------------------- the parser observed alone -------------------- *)

\* _parse_rules_from_yaml applied once to a text, whose rules sequence may
\* hold up to MaxParseEntries entries.
ParseDocs ==
    {Doc(sh, <<>>) : sh \in {"empty", "unparseable", "notmapping", "norules"}}
    \cup {Doc("rules", es) : es \in SeqsUpTo(EntryKinds, MaxParseEntries)}

InitParse ==
    /\ endpoint = "/analyze"
    /\ repo_valid = TRUE
    /\ pr_number = None
    /\ repo_pr = None
    /\ rules_yaml \in {Some(d) : d \in ParseDocs}
    /\ github_token = None
    /\ max_prs = 20
    /\ pc = "parse"
    /\ log = <<>>
    /\ rules = <<>>
    /\ prs = <<>>
    /\ i = 1
    /\ all_violations = <<>>
    /\ prs_analyzed = <<>>
    /\ result = None
    /\ response = None
    /\ last_eval = "not called"
    /\ repo_answer = "not asked"
    /\ pr_answer = "not asked"
    /\ fetch_limit = None
    /\ fetch_failed = FALSE
    /\ repo_file = None
    /\ local_file = None
    /\ reference = None
    /\ repo_info = None
    /\ NotStepwise
    /\ progress = <<>>
    /\ NotConcurrent

ParseStep ==
    /\ pc = "parse"
    /\ rules' = ParseRulesFromYaml(Val(rules_yaml))
    /\ pc' = "parsed"
    /\ UNCHANGED <<request, log, batch, result, response, repo_answer, pr_answer, observed>>

NextParse == ParseStep

SpecParse == InitParse /\ [][NextParse]_vars

(* ------------------- the reference parser observed alone -------------- *)

\* A repository string together with what it says: its shape, the owner
\* and the repo it names, and the PR number and the branch it holds, None
\* when it holds none.
Ref(shape, text, owner, repo, prnum, branch) ==
    [shape |-> shape, text |-> text, owner |-> owner, repo |-> repo,
     pr_number |-> prnum, branch |-> branch]

Owners == {<<"a">>, <<"s", "-", "7">>}
Repos == {<<"a">>, <<"s", "tree">>, <<"pull", "s">>}
Branches == {<<"a">>}
PRDigits == {<<"7">>, <<"7", "0">>}

\* The shapes the docstring of GitHubURLParser lists.
WebReferences ==
    UNION {
        {Ref("web", <<h>> \o o \o <<"/">> \o r, o, r, None, None),
         Ref("web", <<h>> \o o \o <<"/">> \o r \o <<"/">>, o, r, None, None),
         Ref("web", <<h>> \o o \o <<"/">> \o r \o <<"/", "pull", "s">>, o, r, None, None)}
        \cup {Ref("web", <<h>> \o o \o <<"/">> \o r \o <<"/", "tree", "/">> \o b,
                   o, r, None, Some(b)) : b \in Branches}
        \cup {Ref("web", <<h>> \o o \o <<"/">> \o r \o <<"/", "pull", "/">> \o d,
                   o, r, Some(IntOf(d)), None) : d \in PRDigits}
        : h \in WebHosts, o \in Owners, r \in Repos}
BareReferences ==
    {Ref("bare", <<BareHost>> \o o \o <<"/">> \o r, o, r, None, None) :
        o \in Owners, r \in Repos}
SshReferences ==
    UNION {{Ref("ssh", <<SshHost>> \o o \o <<"/">> \o r, o, r, None, None),
            Ref("ssh", <<SshHost>> \o o \o <<"/">> \o r \o <<".git">>, o, r, None, None)} :
           o \in Owners, r \in Repos}
ShortReferences ==
    {Ref("short", o \o <<"/">> \o r, o, r, None, None) : o \in Owners, r \in Repos}
AcceptedReferences ==
    WebReferences \cup BareReferences \cup SshReferences \cup ShortReferences

\* Strings of no listed shape: a single name, a path below the repo that
\* is no tree, pull or pulls segment, a short form with a trailing slash,
\* and a short form between blanks.
OtherReferences ==
    {Ref("other", <<"a">>, <<>>, <<>>, None, None),
     Ref("other", <<"https://github.com/", "a", "/", "a", "/", "s">>, <<>>, <<>>, None, None),
     Ref("other", <<"a", "/", "a", "/">>, <<>>, <<>>, None, None),
     Ref("other", <<" ", "a", "/", "a", " ">>, <<"a">>, <<"a">>, None, None)}

InitUrl ==
    /\ endpoint = "/parse-url"
    /\ repo_valid = FALSE
    /\ pr_number = None
    /\ repo_pr = None
    /\ rules_yaml = None
    /\ github_token = None
    /\ max_prs = 20
    /\ pc = "parse_reference"
    /\ log = <<>>
    /\ rules = <<>>
    /\ prs = <<>>
    /\ i = 1
    /\ all_violations = <<>>
    /\ prs_analyzed = <<>>
    /\ result = None
    /\ response = None
    /\ last_eval = "not called"
    /\ repo_answer = "not asked"
    /\ pr_answer = "not asked"
    /\ fetch_limit = None
    /\ fetch_failed = FALSE
    /\ repo_file = None
    /\ local_file = None
    /\ reference \in {Some(r) : r \in AcceptedReferences \cup OtherReferences}
    /\ repo_info = None
    /\ NotStepwise
    /\ progress = <<>>
    /\ NotConcurrent

\* GitHubURLParser.parse applied to the string, as both routes do first.
ParseObserved ==
    /\ pc = "parse_reference"
    /\ repo_info' = Parse(Val(reference).text)
    /\ repo_valid' = (repo_info' /= None)
    /\ repo_pr' = IF repo_info' = None THEN None ELSE Val(repo_info').pr_number
    /\ pc' = "reference_parsed"
    /\ UNCHANGED <<endpoint, pr_number, rules_yaml, github_token, max_prs, log, rules,
                   batch, result, response, repo_answer, pr_answer, repo_file,
                   local_file, reference, stepwise, concurrent, progress>>

NextUrl == ParseObserved

SpecUrl == InitUrl /\ [][NextUrl]_vars

(* -------------------- an analysis followed call by call --------------- *)

\* _fetch_codeowners, line 506: the candidate paths, in probing order.
CodeownersPaths == <<".github/CODEOWNERS", "CODEOWNERS", "docs/CODEOWNERS">>

\* An external call: the operation, the number of the PR in progress (0
\* outside the processing of a PR), the path asked for and the rule set
\* handed over.
Call(op, prnum, path, ruleset) ==
    [op |-> op, pr |-> prnum, path |-> path, rules |-> ruleset]

\* A handler that catches everything, as a bare except does.
ExceptionCatches_Everything(exc) == TRUE

\* except Exception: the clause catches every exception but those that
\* derive from BaseException alone, as asyncio.CancelledError does.
ExceptionCatches(exc) == exc /= "CancelledError"

\* The next call issued without waiting for the one before.
CanIssue_WithoutAwait(waiting) == TRUE

\* await: the coroutine goes on only when the call it made has answered.
CanIssue(waiting) == waiting = {}

\* analyze, line 157, for the request in hand.
SinglePath == TakesSinglePath(TargetPR(pr_number, repo_pr))

\* The local variables of analyze and of the methods it calls.
Locals ==
    [pc |-> pc, rules |-> rules, prs |-> prs, i |-> i,
     all_violations |-> all_violations, prs_analyzed |-> prs_analyzed,
     last_eval |-> last_eval, result |-> result, event_data |-> event_data,
     probe |-> probe, answers |-> answers, repo_answer |-> repo_answer, pr_answer |-> pr_answer,
     fetch_limit |-> fetch_limit, fetch_failed |-> fetch_failed]

Become(l) ==
    /\ pc' = l.pc
    /\ rules' = l.rules
    /\ prs' = l.prs
    /\ i' = l.i
    /\ all_violations' = l.all_violations
    /\ prs_analyzed' = l.prs_analyzed
    /\ last_eval' = l.last_eval
    /\ result' = l.result
    /\ event_data' = l.event_data
    /\ probe' = l.probe
    /\ answers' = l.answers
    /\ repo_answer' = l.repo_answer
    /\ pr_answer' = l.pr_answer
    /\ fetch_limit' = l.fetch_limit
    /\ fetch_failed' = l.fetch_failed

\* analyze returns r; the answers heard for the PR in progress are history
\* no longer followed.
Returning(l, r) == [l EXCEPT !.pc = "returned", !.result = Some(r), !.answers = <<>>]

\* _build_event_data, lines 416-428: the context before the sub-fetches;
\* a key that is not set yet is None.
StartContext(pr) ==
    [pull_request_details |-> pr, reviews |-> None, files |-> None,
     changed_files |-> None, codeowners_content |-> None]

\* _build_event_data is entered for pr; a PR without a number gets no
\* sub-fetch (line 428).
BeginContext(l, pr) ==
    [l EXCEPT !.event_data = Some(StartContext(pr)),
              !.probe = 1,
              !.answers = <<>>,
              !.pc = IF pr.number /= 0 THEN "reviews" ELSE "engine"]

\* _analyze_latest_prs, lines 252 and 285-293: the loop goes to the next
\* PR, or is over and the batch result is returned.
NextPR(l) ==
    IF l.i + 1 <= Len(l.prs)
    THEN BeginContext([l EXCEPT !.i = l.i + 1], l.prs[l.i + 1])
    ELSE Returning([l EXCEPT !.i = l.i + 1, !.event_data = None],
                   BatchResult(Len(l.rules), l.prs, l.all_violations, l.prs_analyzed))

\* An exception other than a cancellation leaves _build_event_data: the
\* handler of the loop (lines 275-283) records the PR as failed, or, on
\* the single-PR path, the handler of analyze (lines 166-175) returns.
RaiseInContext(l, message) ==
    IF SinglePath
    THEN Returning(l, ExceptionResult(message))
    ELSE NextPR([l EXCEPT !.last_eval = "not called",
                          !.prs_analyzed =
                    Append(@, ErrorSummary(Val(l.event_data).pull_request_details,
                                           message))])

\* An analysis that resolves rules for a repository it did not find.
AfterRepository_GoesOnWithoutRepository(l, answer) ==
    IF answer = "raise"
    THEN Returning([l EXCEPT !.repo_answer = answer],
                   ExceptionResult("repository lookup failed"))
    ELSE [l EXCEPT !.repo_answer = answer, !.pc = "load_rules"]

\* analyze, lines 129-144, after get_repository answered.
AfterRepository(l, answer) ==
    CASE answer = "raise" ->
            Returning([l EXCEPT !.repo_answer = answer],
                      ExceptionResult("repository lookup failed"))
      [] answer = "none" ->
            Returning([l EXCEPT !.repo_answer = answer], RepoNotFoundResult(github_token))
      [] answer = "data" -> [l EXCEPT !.repo_answer = answer, !.pc = "load_rules"]

\* analyze, lines 144-164, after _load_rules returned loaded.
AfterRules(l, loaded) ==
    IF loaded.rules = <<>>
    THEN Returning([l EXCEPT !.rules = loaded.rules], NoRulesResult)
    ELSE [l EXCEPT !.rules = loaded.rules,
                   !.pc = IF SinglePath THEN "single_pr" ELSE "latest_prs"]

\* _analyze_single_pr, lines 187-198, after _fetch_pr_data answered.
AfterPRDetail(l, fetched) ==
    LET target == Val(TargetPR(pr_number, repo_pr))
        pr_data == FetchPRData(target, fetched)
    IN  IF pr_data = None
        THEN Returning([l EXCEPT !.pr_answer = fetched],
                       PRNotFoundResult(Len(l.rules), target))
        ELSE BeginContext([l EXCEPT !.pr_answer = fetched], Val(pr_data))

\* _analyze_latest_prs, lines 226-252, after the list call answered.
AfterList(l, answer) ==
    LET m == [l EXCEPT !.fetch_limit = Some(max_prs),
                       !.fetch_failed = (answer.kind = "raise"),
                       !.prs = FetchedPRs(answer),
                       !.i = 1, !.all_violations = <<>>, !.prs_analyzed = <<>>]
    IN  IF FetchedPRs(answer) = <<>>
        THEN Returning(m, NoOpenPRsResult(Len(l.rules)))
        ELSE BeginContext(m, FetchedPRs(answer)[1])

\* A context build that a failed reviews fetch aborts.
AfterReviews_FailureAborts(l, answer) ==
    IF answer = "fail"
    THEN RaiseInContext(l, "reviews fetch failed")
    ELSE [l EXCEPT !.event_data = Some([Val(@) EXCEPT !.reviews = Some(<<"review">>)]),
                   !.pc = "files"]

\* _build_event_data, lines 429-430, after _fetch_pr_reviews returned
\* (lines 450-474: the list, or [] when the fetch failed).
AfterReviews(l, answer) ==
    [l EXCEPT !.event_data = Some([Val(@) EXCEPT !.reviews =
                    Some(IF answer = "list" THEN <<"review">> ELSE <<>>)]),
              !.pc = "files"]

\* A files fetch that is made again when it failed.
AfterFiles_RetriesOnFailure(l, answer) ==
    IF answer = "malformed"
    THEN RaiseInContext(l, "AttributeError: object has no attribute get")
    ELSE IF answer = "fail"
    THEN l
    ELSE [l EXCEPT !.event_data = Some([Val(@) EXCEPT !.files = Some(<<"file">>),
                                                      !.changed_files = Some(<<"file">>)]),
                   !.pc = "codeowners", !.probe = 1]

\* _build_event_data, lines 432-442, after _fetch_pr_files returned
\* (lines 476-500: the list, or [] when the fetch failed).
AfterFiles(l, answer) ==
    IF answer = "malformed"
    THEN RaiseInContext(l, "AttributeError: object has no attribute get")
    ELSE LET listed == IF answer = "list" THEN <<"file">> ELSE <<>>
         IN  [l EXCEPT !.event_data = Some([Val(@) EXCEPT !.files = Some(listed),
                                                          !.changed_files = Some(listed)]),
                       !.pc = "codeowners", !.probe = 1]

\* The probing that gives up at the first error.
AfterCodeowners_ErrorEndsProbing(l, answer) ==
    IF answer = "content"
    THEN [l EXCEPT !.event_data = Some([Val(@) EXCEPT !.codeowners_content =
                                            Some("owners")]),
                   !.pc = "engine"]
    ELSE IF answer = "empty" /\ l.probe < Len(CodeownersPaths)
    THEN [l EXCEPT !.probe = l.probe + 1]
    ELSE [l EXCEPT !.pc = "engine"]

\* _fetch_codeowners, lines 507-519, and _build_event_data, lines 444-446,
\* after get_file_content answered for the candidate in turn.
AfterCodeowners(l, answer) ==
    IF answer = "content"
    THEN [l EXCEPT !.event_data = Some([Val(@) EXCEPT !.codeowners_content =
                                            Some("owners")]),
                   !.pc = "engine"]
    ELSE IF l.probe < Len(CodeownersPaths)
    THEN [l EXCEPT !.probe = l.probe + 1]
    ELSE [l EXCEPT !.pc = "engine"]

\* An evaluation that uses up the rule it was given first.
AfterEngine_ConsumesRules(l, answer, dumpRaises) ==
    LET context == Val(l.event_data)
        pr == context.pull_request_details
        violations == EvaluateRules(l.rules, context, answer)
        m == [l EXCEPT !.last_eval = EngineOutcome(answer), !.rules = Tail(@)]
    IN  IF SinglePath
        THEN Returning(m, SinglePRResult(Len(l.rules), pr, violations))
        ELSE NextPR([m EXCEPT
                !.all_violations = @ \o violations,
                !.prs_analyzed = RecordIteration(@,
                    [summary |-> SuccessSummary(pr, violations)])])

\* _evaluate_rules after engine_agent.execute answered, and what the
\* caller does with the violations: lines 201-213 on the single-PR path,
\* lines 260-266 and 275-283 in the loop.
AfterEngine(l, answer, dumpRaises) ==
    LET context == Val(l.event_data)
        pr == context.pull_request_details
        violations == EvaluateRules(l.rules, context, answer)
        m == [l EXCEPT !.last_eval = EngineOutcome(answer)]
    IN  IF SinglePath
        THEN Returning(m, SinglePRResult(Len(l.rules), pr, violations))
        ELSE NextPR([m EXCEPT
                !.all_violations = @ \o violations,
                !.prs_analyzed = RecordIteration(@,
                    [summary |-> IF dumpRaises /\ violations /= <<>>
                                 THEN ErrorSummary(pr, "model_dump failed")
                                 ELSE SuccessSummary(pr, violations)])])

\* What a call for the PR in progress answered.
Answered(l, op, answer) ==
    [l EXCEPT !.answers = Append(@, [op |-> op, answer |-> answer])]

\* The positions of analyze at which the next thing it does is an
\* external call.
CallSites ==
    {"get_repository", "load_rules", "single_pr", "latest_prs", "reviews",
     "files", "codeowners", "engine"}

\* The number of the PR in progress.
PRInProgress == Val(event_data).pull_request_details.number

\* The call analyze makes at its position.
NextCall ==
    CASE pc = "get_repository" -> Call("get_repository", 0, "", <<>>)
      [] pc = "load_rules"     -> Call("get_file_content", 0, "rules_file_path", <<>>)
      [] pc = "single_pr"      ->
            Call("get_pull_request", Val(TargetPR(pr_number, repo_pr)), "", <<>>)
      [] pc = "latest_prs"     -> Call("list_pull_requests", 0, "", <<>>)
      [] pc = "reviews"        -> Call("get_reviews", PRInProgress, "", <<>>)
      [] pc = "files"          -> Call("get_files", PRInProgress, "", <<>>)
      [] pc = "codeowners"     ->
            Call("get_file_content", PRInProgress, CodeownersPaths[probe], <<>>)
      [] pc = "engine"         -> Call("execute", PRInProgress, "", rules)

\* The answers the call made at position l.pc can get.
AnswersAt(l) ==
    CASE l.pc = "get_repository" -> {"raise", "none", "data"}
      [] l.pc = "load_rules"     -> RepoFileAnswers \X LocalFiles
      [] l.pc = "single_pr"      -> PRAnswers(Val(TargetPR(pr_number, repo_pr)))
      [] l.pc = "latest_prs"     -> ListAnswers(max_prs)
      [] l.pc = "reviews"        -> ReviewAnswers
      [] l.pc = "files"          -> FileListAnswers
      [] l.pc = "codeowners"     -> {"raise", "empty", "content"}
      [] l.pc = "engine"         -> EvalAnswers \X BOOLEAN

\* The answer is an exception raised by the call.
IsFailure(l, answer) ==
    CASE l.pc \in {"get_repository", "single_pr", "codeowners"} -> answer = "raise"
      [] l.pc = "load_rules"              -> answer[1].kind = "raise"
      [] l.pc = "latest_prs"              -> answer.kind = "raise"
      [] l.pc \in {"reviews", "files"}    -> answer = "fail"
      [] l.pc = "engine"                  -> answer[1].kind = "raise"

\* The locals analyze is left with when the call made at l.pc gets answer
\* and analyze runs on to its next await or to its return.
After(l, answer) ==
    CASE l.pc = "get_repository" -> AfterRepository(l, answer)
      [] l.pc = "load_rules"     ->
            AfterRules(l, LoadRules(rules_yaml, answer[1], answer[2]))
      [] l.pc = "single_pr"      -> AfterPRDetail(l, answer)
      [] l.pc = "latest_prs"     -> AfterList(l, answer)
      [] l.pc = "reviews"        -> AfterReviews(Answered(l, "reviews", answer), answer)
      [] l.pc = "files"          -> AfterFiles(Answered(l, "files", answer), answer)
      [] l.pc = "codeowners"     ->
            AfterCodeowners(Answered(l, "codeowners", answer), answer)
      [] l.pc = "engine"         -> AfterEngine(l, answer[1], answer[2])

\* The requests followed call by call.
InitCalls ==
    /\ endpoint = "/analyze"
    /\ repo_valid = TRUE
    /\ repo_pr \in {None, Some(1)}
    /\ pr_number \in {None, Some(2)}
    /\ rules_yaml \in {None, Some(Doc("rules", <<"ok">>))}
    /\ github_token = Some("ghp_token")
    /\ max_prs = 2
    /\ pc = "get_repository"
    /\ log = <<>>
    /\ rules = <<>>
    /\ prs = <<>>
    /\ i = 1
    /\ all_violations = <<>>
    /\ prs_analyzed = <<>>
    /\ result = None
    /\ response = None
    /\ last_eval = "not called"
    /\ repo_answer = "not asked"
    /\ pr_answer = "not asked"
    /\ fetch_limit = None
    /\ fetch_failed = FALSE
    /\ repo_file = None
    /\ local_file = None
    /\ reference = None
    /\ repo_info = None
    /\ NotStepwise
    /\ progress = <<>>
    /\ NotConcurrent

\* What no step of analyze touches.
Untouched ==
    <<request, log, response, repo_file, local_file, reference, repo_info,
      concurrent, progress>>

\* analyze reaches an await: the call is issued and is outstanding.
Issue ==
    /\ pc \in CallSites
    /\ ~(pc = "load_rules" /\ TruthyDoc(rules_yaml))
    /\ CanIssue(outstanding)
    /\ calls' = Append(calls, NextCall)
    /\ outstanding' = outstanding \cup {Len(calls) + 1}
    /\ UNCHANGED <<Untouched, pc, rules, batch, result, repo_answer, pr_answer,
                   event_data, probe, answers, cancelled>>

\* _load_rules, lines 301-303: an explicit rule text is parsed on the
\* spot, no call is made.
ParseExplicitRules ==
    /\ pc = "load_rules"
    /\ TruthyDoc(rules_yaml)
    /\ outstanding = {}
    /\ \E rf \in RepoFileAnswers, lf \in LocalFiles :
          Become(AfterRules(Locals, LoadRules(rules_yaml, rf, lf)))
    /\ UNCHANGED <<Untouched, calls, outstanding, cancelled>>

\* The outstanding call answers and analyze runs on to its next await or
\* to its return.
Answer ==
    /\ outstanding /= {}
    /\ pc \in CallSites
    /\ \E answer \in AnswersAt(Locals) : Become(After(Locals, answer))
    /\ outstanding' = {}
    /\ UNCHANGED <<Untouched, calls, cancelled>>

\* The task running analyze is cancelled while a call is outstanding:
\* CancelledError is raised at the await.  A handler that catches it
\* treats it as the failure of the call; otherwise it leaves analyze.
Cancel ==
    /\ outstanding /= {}
    /\ pc \in CallSites
    /\ cancelled' = TRUE
    /\ outstanding' = {}
    /\ IF ExceptionCatches("CancelledError")
       THEN \E answer \in {a \in AnswersAt(Locals) : IsFailure(Locals, a)} :
                Become(After(Locals, answer))
       ELSE Become([Locals EXCEPT !.pc = "cancelled"])
    /\ UNCHANGED <<Untouched, calls>>

NextCalls == Issue \/ ParseExplicitRules \/ Answer \/ Cancel

SpecCalls == InitCalls /\ [][NextCalls]_vars

(* ---------------- two analyses on the shared instance ----------------- *)

\* The two requests in flight.
Tasks == {1, 2}

\* The locals of an analysis that has just entered analyze.
InitialLocals ==
    [pc |-> "get_repository", rules |-> <<>>, prs |-> <<>>, i |-> 1,
     all_violations |-> <<>>, prs_analyzed |-> <<>>,
     last_eval |-> "not called", result |-> None, event_data |-> None,
     probe |-> 1, answers |-> <<>>, repo_answer |-> "not asked",
     pr_answer |-> "not asked", fetch_limit |-> None, fetch_failed |-> FALSE]

\* An analysis that keeps its rule set in an attribute of the instance.
RunOn_KeepsRulesOnInstance(instance, next) ==
    [orch |-> {a \in instance : a[1] /= "rules"} \cup {<<"rules", next.rules>>},
     task |-> next]

\* analyze and every method it calls run on the instance and assign
\* local variables only: no line assigns an attribute of self.
RunOn(instance, next) == [orch |-> instance, task |-> next]

\* Two requests for the same repository, served by the same instance.
InitShared ==
    /\ endpoint = "/analyze"
    /\ repo_valid = TRUE
    /\ repo_pr = None
    /\ pr_number \in {None, Some(2)}
    /\ rules_yaml = None
    /\ github_token = Some("ghp_token")
    /\ max_prs = 1
    /\ pc = "two analyses"
    /\ log = <<>>
    /\ rules = <<>>
    /\ prs = <<>>
    /\ i = 1
    /\ all_violations = <<>>
    /\ prs_analyzed = <<>>
    /\ result = None
    /\ response = None
    /\ last_eval = "not called"
    /\ repo_answer = "not asked"
    /\ pr_answer = "not asked"
    /\ fetch_limit = None
    /\ fetch_failed = FALSE
    /\ repo_file = None
    /\ local_file = None
    /\ reference = None
    /\ repo_info = None
    /\ NotStepwise
    /\ progress = <<>>
    /\ orchestrator = NewOrchestrator
    /\ tasks = [t \in Tasks |-> InitialLocals]
    /\ alone = [t \in Tasks |-> InitialLocals]

\* The answers followed here: every answer of the repository lookup, the
\* rule-file fetch, the PR fetches and the evaluator; the sub-fetches of
\* a PR, whose failures are followed call by call above, answer with data.
SharedAnswersAt(l) ==
    IF l.pc \in {"reviews", "files", "codeowners"}
    THEN AnswersAt(l) \cap {"list", "content"}
    ELSE AnswersAt(l)

\* The call analysis t is suspended at answers and t runs on to its next
\* await or to its return; the other analysis stays where it is.  alone
\* follows the same analysis, with the same answer, on an instance of
\* its own.
Resume(t) ==
    /\ tasks[t].pc \in CallSites
    /\ alone[t].pc = tasks[t].pc
    /\ \E answer \in SharedAnswersAt(tasks[t]) :
          LET ran == RunOn(orchestrator, After(tasks[t], answer))
          IN  /\ tasks' = [tasks EXCEPT ![t] = ran.task]
              /\ orchestrator' = ran.orch
              /\ alone' = [alone EXCEPT ![t] =
                                RunOn(NewOrchestrator, After(alone[t], answer)).task]
    /\ UNCHANGED <<request, pc, log, rules, batch, result, response, repo_answer,
                   pr_answer, repo_file, local_file, reference, repo_info,
                   stepwise, progress>>

NextShared == \E t \in Tasks : Resume(t)

SpecShared == InitShared /\ [][NextShared]_vars

(* ---------------- the progress of a batch observed alone -------------- *)

\* The list of the n open PRs of a repository, newest first.
OpenPRs(n) == [k \in 1..n |-> PR(n + 1 - k)]

\* The iterations of the loop so far that ended in its handler.
Failures == {k \in DOMAIN prs_analyzed : "error" \in DOMAIN prs_analyzed[k]}

\* analyze is in _analyze_latest_prs: the list fetch returned up to
\* MaxBatch PRs and the loop is about to start.
InitProgress ==
    /\ endpoint = "/analyze"
    /\ repo_valid = TRUE
    /\ repo_pr = None
    /\ pr_number = None
    /\ rules_yaml = Some(Doc("rules", <<"ok">>))
    /\ github_token = Some("ghp_token")
    /\ max_prs = 200
    /\ pc = "loop"
    /\ log = <<>>
    /\ rules = ParseRulesFromYaml(Doc("rules", <<"ok">>))
    /\ prs \in {OpenPRs(n) : n \in 1..MaxBatch}
    /\ i = 1
    /\ all_violations = <<>>
    /\ prs_analyzed = <<>>
    /\ result = None
    /\ response = None
    /\ last_eval = "not called"
    /\ repo_answer = "data"
    /\ pr_answer = "not asked"
    /\ fetch_limit = Some(200)
    /\ fetch_failed = FALSE
    /\ repo_file = None
    /\ local_file = None
    /\ reference = None
    /\ repo_info = None
    /\ NotStepwise
    /\ progress = <<>>
    /\ NotConcurrent

\* _analyze_latest_prs, lines 252-283: one iteration of the loop, for a PR
\* without violations; at most MaxFailures PRs of a batch have a files
\* payload that makes the iteration end in the handler.
ProcessObserved ==
    /\ pc = "loop"
    /\ i <= Len(prs)
    /\ \E files \in (IF Cardinality(Failures) < MaxFailures
                      THEN {"list", "malformed"} ELSE {"list"}) :
          LET done == Iteration(rules, prs[i], "list", files, "none",
                                EvalAnswer("ok", <<>>), FALSE)
          IN  /\ all_violations' = all_violations \o done.extend
              /\ prs_analyzed' = RecordIteration(prs_analyzed, done)
              /\ last_eval' = done.evaluator
              /\ progress' = EmitProgress(progress, i, Len(prs), Failed(done))
    /\ i' = i + 1
    /\ UNCHANGED <<request, pc, log, rules, prs, result, response, repo_answer,
                   pr_answer, fetch_limit, fetch_failed, watched>>

NextProgress == ProcessObserved \/ ReturnBatch

SpecProgress == InitProgress /\ [][NextProgress]_vars

(* ------------------------------ properties ---------------------------- *)

\* analyze has returned a result.
Returned == result /= None
\* analyze has returned from the batch path with at least one fetched PR.
BatchReturned == result /= None /\ prs /= <<>>
Counts(analyzed) == [k \in DOMAIN analyzed |-> analyzed[k].violations_count]
Dumps(analyzed) == [k \in DOMAIN analyzed |-> analyzed[k].violations]
HasError(summary) == "error" \in DOMAIN summary

\* C1: in every result of the batch path the violations_count of the
\* summaries add up to the length of the top-level violations list, also
\* when an iteration failed after its violations were obtained.
C1_CountsAddUp ==
    BatchReturned =>
        SumSeq(Counts(Val(result).prs_analyzed)) = Len(Val(result).violations)

\* C2: a batch of N >= 1 fetched PRs always returns success = true and
\* exactly one summary per fetched PR, in fetch positions, whichever PRs
\* failed; while the loop runs, every finished iteration has left exactly
\* one summary.
C2_OneSummaryPerFetchedPR ==
    /\ pc = "loop" => Len(prs_analyzed) = i - 1 /\ i <= Len(prs) + 1
    /\ BatchReturned =>
          /\ Val(result).success
          /\ Len(Val(result).prs_analyzed) = Len(prs)
          /\ \A k \in DOMAIN prs : Val(result).prs_analyzed[k].number = prs[k].number

\* C2 witness: a batch of two PRs has returned, the first summary is the
\* one of a failed PR, the second the one of a PR with a violation.
C2_Witness ==
    /\ BatchReturned
    /\ Len(prs) = 2
    /\ HasError(Val(result).prs_analyzed[1])
    /\ ~HasError(Val(result).prs_analyzed[2])
    /\ Val(result).prs_analyzed[2].violations_count = 1

\* C3: when the rule engine raised for the PR of the last finished
\* iteration, the summary of that PR carries an error, a violations_count
\* of 0 and no violations.
C3_EngineErrorIsRecorded ==
    (pc = "loop" /\ i > 1 /\ last_eval = "raised") =>
        /\ HasError(prs_analyzed[i - 1])
        /\ prs_analyzed[i - 1].violations_count = 0
        /\ prs_analyzed[i - 1].violations = <<>>

\* C4: in a batch result the summaries follow the fetched PRs position by
\* position and the top-level violations are, as dicts, the concatenation
\* of the violations of the summaries in that order.
C4_FlattenedInFetchOrder ==
    BatchReturned =>
        /\ \A k \in DOMAIN prs : Val(result).prs_analyzed[k].number = prs[k].number
        /\ DumpAll(Val(result).violations) = Flatten(Dumps(Val(result).prs_analyzed))

\* C5: every result returned after a non-empty rule set was resolved
\* reports rules_loaded equal to the size of that rule set.
C5_RulesLoadedIsRuleCount ==
    (Returned /\ rules /= <<>>) => Val(result).rules_loaded = Len(rules)

\* C6: a result that reports failure has no violations, an error, no
\* summaries and no representative PR; a result that reports success has
\* no error and comes from a finished evaluation (it names a PR and holds
\* a summary); and the fatal conditions visible in the state (no rule set
\* resolved, or a PR list fetch that returned nothing) report failure.
C6_FatalResultsAreEmpty ==
    Returned =>
        LET r == Val(result)
        IN  /\ ~r.success =>
                  /\ r.violations = <<>>
                  /\ r.error /= None
                  /\ r.prs_analyzed = <<>>
                  /\ r.pr_data = None
            /\ r.success => r.error = None /\ r.pr_data /= None /\ r.prs_analyzed /= <<>>
            /\ rules = <<>> => ~r.success
            /\ (log /= <<>> /\ log[Len(log)] = FetchStrategy(max_prs) /\ prs = <<>>)
                  => ~r.success

\* C6 witness: the batch path found no open PR after a rule set was
\* resolved, and returned the failure.
C6_Witness ==
    /\ Returned
    /\ rules /= <<>>
    /\ log[Len(log)] = FetchStrategy(max_prs)
    /\ prs = <<>>
    /\ ~Val(result).success
    /\ Val(result).error = Some(Err("No open pull requests found in this repository.",
                                    0, FALSE))

\* C7: the /analyze handler always ends with a response object: neither
\* analyze nor the conversion of its result raises.
C7_AlwaysAResponse ==
    response /= None => ~Val(response).raised

\* The rule set of the first source that succeeds, success being a
\* non-empty parse for the explicit text and for the repository file and
\* the existence of the file for the local fallback.
FirstNonEmptyParse(yaml, repoFile, localFile) ==
    IF yaml /= None /\ ParseRulesFromYaml(Val(yaml)) /= <<>>
    THEN ParseRulesFromYaml(Val(yaml))
    ELSE IF repoFile.kind = "content" /\ ParseRulesFromYaml(repoFile.doc) /= <<>>
    THEN ParseRulesFromYaml(repoFile.doc)
    ELSE IF localFile.exists
    THEN ParseRulesFromYaml(localFile.doc)
    ELSE <<>>

C9_ExplicitTextSkipsOtherSources ==
    rules_yaml /= None =>
        /\ "get_file_content:rules" \notin Range(log)
        /\ "read_text:local_rules" \notin Range(log)

\* C10: once the rules are resolved, the single-PR path is taken exactly
\* when a target PR number is known (explicit, else embedded), 0 included.
C10_SinglePathIffTargetKnown ==
    pc \in {"single_pr", "latest_prs"} =>
        (pc = "single_pr" <=> TargetPR(pr_number, repo_pr) /= None)

\* The PR list calls among the calls made so far.
ListFetches ==
    SelectSeq(log, LAMBDA c : c \in {"list_pull_requests", "fetch_all_pull_requests"})

\* C11: an analysis makes at most one PR list call; once the batch path
\* has fetched, it made exactly one, with the limit max_prs, and that call
\* is the paginated one exactly when max_prs > 20 and the single-page one
\* exactly when max_prs <= 20.
C11_OneFetchStrategy ==
    /\ Len(ListFetches) <= 1
    /\ pc = "loop" => fetch_limit /= None
    /\ fetch_limit /= None =>
          /\ Len(ListFetches) = 1
          /\ Val(fetch_limit) = max_prs
          /\ ListFetches[1] = "fetch_all_pull_requests" <=> max_prs > 20
          /\ ListFetches[1] = "list_pull_requests" <=> max_prs <= 20

\* C11 witness: a request for 20 PRs has fetched its PRs with the
\* single-page call and is in the loop.
C11_Witness ==
    /\ pc = "loop"
    /\ max_prs = 20
    /\ prs /= <<>>
    /\ ListFetches = <<"list_pull_requests">>

Clamp(n) == IF n < 1 THEN 1 ELSE IF n > 200 THEN 200 ELSE n

\* C12 as stated: whatever max_prs a request carries, it is not turned
\* away for it, and the limit of the PR list call is max_prs clamped into
\* 1..200.
C12_LimitIsClamped ==
    /\ pc = "rejected" => Val(response) = ClientError(400)
    /\ fetch_limit /= None => Val(fetch_limit) = Clamp(max_prs)

\* C12 as amended: max_prs is checked, not clamped.  A request with max_prs
\* below 1 or above 200 is answered with a validation error before any
\* call is made; a request with max_prs in 1..200 is never turned away for
\* it, and the limit of its PR list call is max_prs itself; so no PR
\* list call has a limit below 1 or above 200.
C12_OutOfRangeIsRejected ==
    /\ (max_prs < 1 \/ max_prs > 200) =>
          /\ pc \in {"received", "rejected"}
          /\ log = <<>> /\ result = None /\ fetch_limit = None
          /\ pc = "rejected" => Val(response) = ClientError(422)
    /\ (1 <= max_prs /\ max_prs <= 200) =>
          (pc = "rejected" => Val(response) = ClientError(400))
    /\ fetch_limit /= None =>
          /\ Val(fetch_limit) = max_prs
          /\ 1 <= Val(fetch_limit) /\ Val(fetch_limit) <= 200

\* C12 witness: a request to /analyze for 201 PRs with a valid reference
\* has been answered with the validation error.
C12_Witness ==
    /\ endpoint = "/analyze"
    /\ repo_valid
    /\ max_prs = 201
    /\ pc = "rejected"
    /\ response = Some(ClientError(422))

\* The request carries no credential: no token, or the empty string,
\* with which the client calls GitHub anonymously.
NoCredential == github_token \in {None, Some("")}

\* C13: when the repository lookup answered that there is no such
\* repository, the result reports failure with no violations and the
\* repository error, and the rate-limit note is in the error text exactly
\* when the request carries no credential.
C13_HintOnlyWithoutCredential ==
    (Returned /\ repo_answer = "none") =>
        LET r == Val(result)
        IN  /\ ~r.success
            /\ r.violations = <<>>
            /\ r.error /= None
            /\ Val(r.error).msg = "Repository not found or access denied"
            /\ Val(r.error).hint <=> NoCredential
            /\ github_token = Some("ghp_token") => ~Val(r.error).hint

\* C13 witness: a request with a token met a repository that does not
\* exist, and the result is returned.
C13_Witness ==
    /\ Returned
    /\ repo_answer = "none"
    /\ github_token = Some("ghp_token")
    /\ ~Val(result).success

\* C14: when the repository lookup returned nothing or raised, and the
\* request carries no credential, the result is the repository error with
\* the rate-limit note.
C14_UnreachableRepositoryGetsHint ==
    (Returned /\ repo_answer \in {"none", "raise"} /\ NoCredential) =>
        /\ ~Val(result).success
        /\ Val(result).error
              = Some(Err("Repository not found or access denied", 0, TRUE))

\* The positions of the well-formed entries of a rules sequence.
WellFormed(entries) == {k \in DOMAIN entries : entries[k] = "ok"}

\* C15: parsing a document with a rules sequence returns one rule per
\* well-formed entry and no other, in document order: the j-th rule is
\* the rule of the j-th well-formed entry, however many malformed entries
\* stand before, between or after them.
C15_WellFormedEntriesSurvive ==
    (pc = "parsed" /\ Val(rules_yaml).shape = "rules") =>
        LET entries == Val(rules_yaml).entries
        IN  /\ Len(rules) = Cardinality(WellFormed(entries))
            /\ {rules[j].entry : j \in DOMAIN rules} = WellFormed(entries)
            /\ \A j \in DOMAIN rules :
                  /\ rules[j] = Rule(rules[j].entry)
                  /\ Cardinality({k \in WellFormed(entries) : k <= rules[j].entry}) = j

\* C15 witness: a document whose entries are one that raises, a
\* well-formed one, one that is no mapping and a well-formed one has been
\* parsed into the rules of the second and of the fourth entry.
C15_Witness ==
    /\ pc = "parsed"
    /\ Val(rules_yaml) = Doc("rules", <<"raises", "ok", "nondict", "ok">>)
    /\ rules = <<Rule(2), Rule(4)>>

\* The texts that are structurally invalid.
InvalidShapes == {"unparseable", "notmapping", "norules"}

\* C16: the parser returns the empty list for every structurally invalid
\* text; an analysis whose explicit text is structurally invalid resolves
\* the empty rule set; and every analysis that resolved the empty rule set
\* ends there with success = false, rules_loaded = 0 and the no-rules
\* error, no PR or PR list having been fetched.
C16_InvalidDocumentMeansNoRules ==
    /\ \A d \in Docs : d.shape \in InvalidShapes => ParseRulesFromYaml(d) = <<>>
    /\ (rules_yaml /= None /\ Val(rules_yaml).shape \in InvalidShapes
          /\ repo_answer = "data" /\ pc /= "load_rules") => rules = <<>>
    /\ (repo_answer = "data" /\ pc /= "load_rules" /\ rules = <<>>) =>
          /\ pc \in {"returned", "responded"}
          /\ ~Val(result).success
          /\ Val(result).rules_loaded = 0
          /\ Val(result).violations = <<>>
          /\ Val(result).error = Some(Err("No rules found", 0, FALSE))
          /\ "get_pull_request" \notin Range(log)
          /\ ListFetches = <<>>
          /\ prs = <<>> /\ last_eval = "not called"

\* C16 witness: the explicit text is a mapping without the rules key and
\* the analysis has returned the no-rules failure.
C16_Witness ==
    /\ pc = "returned"
    /\ rules_yaml = Some(Doc("norules", <<>>))
    /\ repo_answer = "data"
    /\ rules = <<>>
    /\ Val(result).error = Some(Err("No rules found", 0, FALSE))

\* The position of the PR numbered n in the fetched list.
FetchPosition(n) == CHOOSE k \in DOMAIN prs : prs[k].number = n

\* C17: in a returned result of the single-PR path every violation carries
\* the number of the PR that was fetched and evaluated; in a returned
\* result of the batch path every violation dict under a summary carries
\* the number of that summary, and every top-level violation carries the
\* number of a fetched PR, the violations of an earlier PR standing before
\* those of a later one.
C17_ViolationsCarryTheirPR ==
    (Returned /\ Val(result).success) =>
        LET r == Val(result)
        IN  IF "get_pull_request" \in Range(log)
            THEN \A j \in DOMAIN r.violations :
                    /\ r.violations[j].pr_number = Some(Val(r.pr_data).number)
                    /\ r.violations[j].pr_number = Some(r.prs_analyzed[1].number)
            ELSE /\ \A k \in DOMAIN r.prs_analyzed :
                       \A j \in DOMAIN r.prs_analyzed[k].violations :
                          r.prs_analyzed[k].violations[j][3]
                              = Some(r.prs_analyzed[k].number)
                 /\ \A j \in DOMAIN r.violations :
                       \E k \in DOMAIN prs : r.violations[j].pr_number = Some(prs[k].number)
                 /\ \A j1, j2 \in DOMAIN r.violations :
                       j1 < j2 => FetchPosition(Val(r.violations[j1].pr_number))
                                     <= FetchPosition(Val(r.violations[j2].pr_number))

\* C17 witness: a batch of two PRs has returned, each PR with one
\* violation under its summary.
C17_Witness ==
    /\ BatchReturned
    /\ Len(prs) = 2
    /\ Len(Val(result).violations) = 2
    /\ \A k \in 1..2 : ~HasError(Val(result).prs_analyzed[k])
                        /\ Val(result).prs_analyzed[k].violations_count = 1

\* The calls made for the context of a PR and for its evaluation.
ContextAndEngineCalls ==
    {"_fetch_pr_reviews", "_fetch_pr_files", "_fetch_codeowners", "engine_agent.execute"}

\* C18: when the fetch of the target PR made no headers, met a status
\* other than 200 or raised, the single-PR path returns success = false
\* with the PR-not-found error naming the target, rules_loaded equal to
\* the size of the resolved rule set, and no call for reviews, files,
\* CODEOWNERS or the rule engine after the failed fetch; and a result of
\* the batch path, which fetches no target PR, never has this error.
C18_PRNotFoundStopsSinglePath ==
    /\ (Returned /\ pr_answer \in {"no headers", "not 200", "raise"}) =>
          LET r == Val(result)
          IN  /\ ~r.success
              /\ r.error = Some(Err("PR not found or access denied",
                                     Val(TargetPR(pr_number, repo_pr)), FALSE))
              /\ r.rules_loaded = Len(rules) /\ Len(rules) >= 1
              /\ log[Len(log)] = "get_pull_request"
              /\ Range(log) \cap ContextAndEngineCalls = {}
              /\ last_eval = "not called"
    /\ (Returned /\ pr_answer \in {"not asked", "data"} /\ Val(result).error /= None) =>
          Val(Val(result).error).msg /= "PR not found or access denied"
    /\ ListFetches /= <<>> => pr_answer = "not asked"

\* C18 witness: the request names PR 2, a rule set was resolved, the fetch
\* of PR 2 met a status other than 200 and the failure is returned.
C18_Witness ==
    /\ Returned
    /\ pr_number = Some(2)
    /\ pr_answer = "not 200"
    /\ rules /= <<>>
    /\ Val(result).error = Some(Err("PR not found or access denied", 2, FALSE))

\* C19: a PR list call that raised leaves the empty PR list, whichever
\* strategy made it; and the batch path with an empty PR list returns
\* success = false with the no-open-pull-requests error, which is not the
\* error of the fetch, rules_loaded equal to the size of the resolved rule
\* set, and without any iteration or call of the rule engine.
C19_FailedListFetchMeansNoOpenPRs ==
    /\ fetch_failed => prs = <<>> /\ pc \in {"returned", "responded"}
    /\ (Returned /\ fetch_limit /= None /\ prs = <<>>) =>
          LET r == Val(result)
          IN  /\ ~r.success
              /\ r.error = Some(Err("No open pull requests found in this repository.",
                                     0, FALSE))
              /\ r.rules_loaded = Len(rules) /\ Len(rules) >= 1
              /\ r.violations = <<>> /\ r.prs_analyzed = <<>>
              /\ last_eval = "not called" /\ i = 1
              /\ "engine_agent.execute" \notin Range(log)

\* C19 witness: the paginated list call of a request for 200 PRs raised
\* and the no-open-pull-requests failure is returned.
C19_Witness ==
    /\ Returned
    /\ fetch_failed
    /\ max_prs = 200
    /\ ListFetches = <<"fetch_all_pull_requests">>
    /\ ~Val(result).success

\* C20: a request whose repository string the parser rejects makes no
\* call of the orchestrator (no repository lookup, no rule resolution, no
\* PR fetch, no result); on /analyze it is answered with a client error,
\* and on /parse-url, once the body is accepted, with a response that did
\* not raise, says valid = false and has every other field null.
C20_InvalidReferenceNeverAnalyzed ==
    ~repo_valid =>
        /\ log = <<>> /\ result = None /\ rules = <<>>
        /\ repo_answer = "not asked" /\ pr_answer = "not asked" /\ fetch_limit = None
        /\ pc \in {"received", "handler", "rejected", "responded"}
        /\ endpoint = "/analyze" =>
              /\ pc /= "responded"
              /\ pc = "rejected" =>
                    /\ Val(response).status \in 400..499
                    /\ MaxPrsAccepted(max_prs) => Val(response).status = 400
        /\ (endpoint = "/parse-url" /\ MaxPrsAccepted(max_prs)) =>
              /\ pc /= "rejected"
              /\ pc = "responded" =>
                    /\ ~Val(response).raised
                    /\ Val(response).valid = FALSE
                    /\ \A f \in DOMAIN Val(response) \ {"raised", "valid"} :
                          Val(response)[f] = None

\* C20 witness: /parse-url has answered a request whose repository string
\* matches no pattern.
C20_Witness ==
    /\ endpoint = "/parse-url"
    /\ ~repo_valid
    /\ pc = "responded"
    /\ Val(response).valid = FALSE

\* C21: for every string of a listed shape the parser returns a result
\* with the owner and the repo the string names, a PR number exactly when
\* the string holds a pull/N segment and a branch exactly when it holds a
\* tree segment; the SSH and the short form yield neither.
C21_AcceptedShapesAreParsed ==
    (pc = "reference_parsed" /\ Val(reference).shape /= "other") =>
        /\ repo_info /= None
        /\ Val(repo_info).owner = Val(reference).owner
        /\ Val(repo_info).repo = Val(reference).repo
        /\ Val(repo_info).pr_number = Val(reference).pr_number
        /\ Val(repo_info).branch = Val(reference).branch

\* C22: an analysis cancelled while a call is outstanding (the repository
\* lookup, the rule-file fetch, the list, detail, reviews, files or
\* CODEOWNERS fetch, the evaluator call) has left analyze with the
\* cancellation and has returned no result: no handler turned the
\* cancellation into a result, a summary or default data.
C22_CancellationPropagates ==
    cancelled => /\ pc = "cancelled"
                 /\ result = None
                 /\ outstanding = {}

\* The summaries and the context are those of the moment of cancellation.
C22_Witness ==
    /\ cancelled
    /\ Len(prs_analyzed) = 1
    /\ calls[Len(calls)].op = "get_files"
    /\ Val(event_data).files = None

Stage(call) ==
    CASE call.op = "get_repository" -> 1
      [] call.op = "get_file_content" /\ call.pr = 0 -> 2
      [] call.op \in {"list_pull_requests", "get_pull_request"} -> 3
      [] OTHER -> 4

\* C24: the calls of an analysis are issued in the order of the stages; a
\* rule source is consulted only after the repository lookup returned the
\* repository, a PR list or a PR detail is fetched only with a non-empty
\* rule set, a call for a PR is made only for a PR that was fetched; so a
\* stage that failed is followed by no call of a later stage.
C24_StagesRunInOrder ==
    /\ \A j, k \in DOMAIN calls : j < k => Stage(calls[j]) <= Stage(calls[k])
    /\ rules /= <<>> => repo_answer = "data"
    /\ \A k \in DOMAIN calls :
          /\ Stage(calls[k]) >= 2 => repo_answer = "data"
          /\ Stage(calls[k]) >= 3 => rules /= <<>>
          /\ Stage(calls[k]) = 4 =>
                IF SinglePath THEN pr_answer = "data" ELSE prs /= <<>>

\* The rule resolution came out empty: the analysis returned after the
\* repository lookup and the rule-file fetch.
C24_Witness ==
    /\ pc = "returned"
    /\ result = Some(NoRulesResult)
    /\ Len(calls) = 2
    /\ Stage(calls[2]) = 2

\* The errors a PR can end with that no sub-fetch caused: an entry of the
\* files payload that is no mapping, a violation that cannot be dumped.
OtherErrors == {"AttributeError: object has no attribute get", "model_dump failed"}

Probes ==
    LET IsProbe(c) == c.op = "get_file_content" /\ c.pr = PRInProgress
    IN  SelectSeq(calls, IsProbe)
Heard ==
    LET IsProbe(a) == a.op = "codeowners"
    IN  SelectSeq(answers, IsProbe)

\* C26: the probes for a PR ask for the candidate paths in the order of
\* the list; content is answered by the last probe only, no probe follows
\* it and it is the content of the context; a probe that raised or
\* returned nothing is followed by the probe of the next candidate, and
\* the context has no content only when every candidate was probed.
C26_FirstCandidateWithContentWins ==
    (event_data /= None /\ pc \in {"codeowners", "engine"}) =>
        /\ Len(Probes) <= Len(CodeownersPaths)
        /\ \A k \in DOMAIN Probes : Probes[k].path = CodeownersPaths[k]
        /\ \A k \in DOMAIN Heard :
              Heard[k].answer = "content" =>
                  k = Len(Heard) /\ k = Len(Probes) /\ pc = "engine"
        /\ pc = "codeowners" =>
              /\ probe = Len(Heard) + 1
              /\ Len(Probes) = Len(Heard) + Cardinality(outstanding)
        /\ pc = "engine" =>
              /\ Heard /= <<>>
              /\ Len(Probes) = Len(Heard)
              /\ IF Heard[Len(Heard)].answer = "content"
                 THEN Val(event_data).codeowners_content = Some("owners")
                 ELSE /\ Val(event_data).codeowners_content = None
                      /\ Len(Heard) = Len(CodeownersPaths)

\* The first candidate raised, the second had the content: the third was
\* not probed.
C26_Witness ==
    /\ pc = "engine"
    /\ Len(Probes) = 2
    /\ Heard[1].answer = "raise"
    /\ Heard[2].answer = "content"
    /\ Val(event_data).codeowners_content = Some("owners")

\* The position in the fetched list of the PR a call was made for.
PositionOf(call) == CHOOSE q \in DOMAIN prs : prs[q].number = call.pr

\* C27: in a batch at most one call is outstanding; the calls made for PRs
\* follow the order of the list, and a call for the PR at a position is
\* there only when the summaries of all the PRs before it are recorded,
\* so the only PR with calls and without summary is the one in progress.
C27_PRsAreProcessedOneByOne ==
    /\ Cardinality(outstanding) <= 1
    /\ ~SinglePath =>
          \A k \in DOMAIN calls :
              Stage(calls[k]) = 4 =>
                  /\ Len(prs_analyzed) >= PositionOf(calls[k]) - 1
                  /\ Len(prs_analyzed) < PositionOf(calls[k]) =>
                        /\ pc \in CallSites \cup {"cancelled"}
                        /\ i = PositionOf(calls[k])
                  /\ \A j \in 1..k :
                        Stage(calls[j]) = 4 => PositionOf(calls[j]) <= PositionOf(calls[k])

\* The first call for the second PR of a batch is outstanding; the
\* summary of the first PR is recorded.
C27_Witness ==
    /\ ~SinglePath
    /\ Len(prs) = 2
    /\ Len(prs_analyzed) = 1
    /\ outstanding = {Len(calls)}
    /\ calls[Len(calls)].pr = prs[2].number
    /\ calls[Len(calls)].op = "get_reviews"

\* C29: no call is issued twice in an analysis, whatever the calls
\* answered: the repository lookup, the rule-file fetch, the PR list fetch
\* and the fetch of the target PR once each, and for each PR the reviews
\* fetch, the files fetch and the probe of each CODEOWNERS candidate once
\* each.
C29_NoCallIsRepeated ==
    \A j, k \in DOMAIN calls : j < k => calls[j] /= calls[k]

\* The files fetch of a PR failed; the analysis went on to the CODEOWNERS
\* probes with the one files fetch it made.
C29_Witness ==
    /\ pc = "codeowners"
    /\ answers[2] = [op |-> "files", answer |-> "fail"]
    /\ outstanding /= {}
    /\ LET IsFilesFetch(c) == c.op = "get_files" /\ c.pr = PRInProgress
       IN  Len(SelectSeq(calls, IsFilesFetch)) = 1

\* The evaluator calls issued so far.
EvaluatorCalls ==
    LET IsExecute(c) == c.op = "execute"
    IN  SelectSeq(calls, IsExecute)

\* The rule set is resolved: analyze is past _load_rules.
RulesResolved ==
    \/ pc \in CallSites \ {"get_repository", "load_rules"}
    \/ pc = "returned" /\ repo_answer = "data"

\* The fetches of the rules file issued so far.
RuleFetches ==
    LET IsRuleFetch(c) == Stage(c) = 2
    IN  SelectSeq(calls, IsRuleFetch)

\* The rules file was fetched once, or never when the request brought the
\* rule text; every evaluator call got the rule set of the analysis, and
\* the result counts that rule set.
RuleSetIsTheOneResolved ==
    /\ RulesResolved =>
          Len(RuleFetches) = (IF TruthyDoc(rules_yaml) THEN 0 ELSE 1)
    /\ \A k \in DOMAIN EvaluatorCalls : EvaluatorCalls[k].rules = rules
    /\ (pc = "returned" /\ Val(result).success) =>
          Val(result).rules_loaded = Len(rules)

\* A step taken after the resolution leaves the rule set and the request,
\* the repository reference with it, as they are.
RuleSetIsKept ==
    RulesResolved => rules' = rules /\ request' = request

\* C30: the rule set changes in the resolution only, which an analysis
\* that found its repository goes through once; every evaluator call of
\* the analysis, one per PR in a batch, receives that rule set, the result
\* counts it, and the processing of a PR, failed or not, changes neither
\* the rule set nor the repository reference.
C30_RuleSetIsResolvedOnce ==
    /\ [](RuleSetIsTheOneResolved)
    /\ [][RuleSetIsKept]_vars

\* Both PRs of a batch went to the evaluator, the first PR ended in an
\* error, and the batch returned.
C30_Witness ==
    /\ pc = "returned"
    /\ Len(EvaluatorCalls) = 2
    /\ Len(prs_analyzed) = 2
    /\ "error" \in DOMAIN prs_analyzed[1]
    /\ Val(result).rules_loaded = Len(rules)

\* The signals due when processed PRs of a batch of total have their
\* summary: one for each multiple of the period up to processed.
SignalsDue(processed, total) ==
    [j \in 1..(processed \div ProgressEvery) |->
        [processed |-> j * ProgressEvery, total |-> total]]

\* C28: in a batch, as soon as the summary of the k-th PR is recorded, for
\* k a multiple of 10, the signal (k, total) has been emitted, once, the
\* PR failed or not; no other signal is emitted, so the processed values
\* of the signals increase.
C28_ProgressEveryTenPRs ==
    pc \in {"loop", "returned"} =>
        progress = SignalsDue(Len(prs_analyzed), Len(prs))

\* C31: the PR metadata of a result is null in every failed result, the
\* target PR in a successful single-PR result and, in a completed batch,
\* the first PR the list fetch returned, whatever became of its
\* evaluation.
C31_RepresentativePRIsFirstFetched ==
    (pc \in {"returned", "responded"} /\ result /= None) =>
        IF ~Val(result).success
        THEN Val(result).pr_data = None
        ELSE IF SinglePath
        THEN Val(result).pr_data = Some(PR(Val(TargetPR(pr_number, repo_pr))))
        ELSE prs /= <<>> /\ Val(result).pr_data = Some(prs[1])

\* A batch of two PRs returned; the processing of the first PR raised,
\* the second PR was evaluated, and the result carries the first.
C31_Witness ==
    /\ pc = "returned"
    /\ ~SinglePath
    /\ Len(prs) = 2
    /\ Len(prs_analyzed) = 2
    /\ "error" \in DOMAIN prs_analyzed[1]
    /\ ~("error" \in DOMAIN prs_analyzed[2])
    /\ Val(result).pr_data = Some(prs[1])

\* The fetch of the rules file raised, returned None or returned the
\* empty text.
RuleFetchCameBackEmpty ==
    \/ Val(repo_file).kind \in {"raise", "none"}
    \/ Val(repo_file).kind = "content" /\ ~NonEmptyText(Val(repo_file).doc)

\* C32: without explicit rule text, when the fetch of the repository rules
\* file raised or returned no content, the resolution went on to the local
\* file: it read and parsed the file when it exists and returned the empty
\* list when it does not; the analysis then goes on with the rules or
\* returns the no-rules result, never a result made of the fetch error.
C32_FailedRuleFetchFallsBack ==
    (pc /= "load_rules" /\ rules_yaml = None /\ repo_file /= None
        /\ RuleFetchCameBackEmpty) =>
        /\ IF Val(local_file).exists
           THEN /\ rules = ParseRulesFromYaml(Val(local_file).doc)
                /\ log = <<"get_repository", "get_file_content:rules",
                           "read_text:local_rules">>
           ELSE /\ rules = <<>>
                /\ log = <<"get_repository", "get_file_content:rules">>
        /\ IF rules = <<>>
           THEN pc = "returned" /\ result = Some(NoRulesResult)
           ELSE pc \in {"single_pr", "latest_prs"} /\ result = None

\* The fetch of the rules file raised, the local file holds a rule, and
\* the analysis goes on with it.
C32_Witness ==
    /\ pc \in {"single_pr", "latest_prs"}
    /\ rules_yaml = None
    /\ repo_file /= None
    /\ Val(repo_file).kind = "raise"
    /\ Val(local_file).exists
    /\ rules = ParseRulesFromYaml(Val(local_file).doc)
    /\ rules /= <<>>

\* The result has one summary, of the target PR, that counts the
\* violations of the result.
OneSummaryOfTarget(r) ==
    /\ Len(r.prs_analyzed) = 1
    /\ r.prs_analyzed[1].number = Val(TargetPR(pr_number, repo_pr))
    /\ r.prs_analyzed[1].violations_count = Len(r.violations)

\* C33: in single-PR mode, once the metadata of the target PR is fetched,
\* the result has exactly one summary, with the number of the target PR
\* and the count of the violations of the result.
C33_FetchedPRHasOneSummary ==
    (pc \in {"returned", "responded"} /\ pr_answer = "data") =>
        OneSummaryOfTarget(Val(result))

\* C33 as amended: once the metadata of the target PR is fetched, a
\* successful result has exactly one summary, with the number of the
\* target PR and the count of the violations of the result, and the
\* response shows that summary and that count; the one other result is
\* that of an exception raised while the context was built, which is
\* failed and has no summary.
C33_SuccessfulSinglePRHasOneSummary ==
    (pc \in {"returned", "responded"} /\ pr_answer = "data") =>
        /\ IF Val(result).success
           THEN OneSummaryOfTarget(Val(result))
           ELSE Val(result) =
                    ExceptionResult("AttributeError: object has no attribute get")
        /\ (pc = "responded" /\ ~Val(response).raised) =>
              /\ Val(response).prs_analyzed = Val(result).prs_analyzed
              /\ Val(response).violations_count = Len(Val(result).violations)

\* The target PR was fetched and evaluated with a violation; the response
\* shows the one summary, which counts it.
C33_Witness ==
    /\ pc = "responded"
    /\ pr_answer = "data"
    /\ ~Val(response).raised
    /\ Val(response).violations_count = 1
    /\ Len(Val(response).prs_analyzed) = 1
    /\ Val(response).prs_analyzed[1].violations_count = 1
====
